---- MODULE Spec2Model ----
(***************************************************************************)
(* Model of the meds-market-flow marketplace: the role registry and the    *)
(* useUserRole hook, the row-level policies of the relational store, the   *)
(* cart and checkout, the delivery records and the dashboard layout gate.  *)
(*                                                                         *)
(* Every data-store call of a handler is one step: the store executes the  *)
(* statement atomically, and the handler continues with the answer.  A     *)
(* call may also fail for a reason outside the model (network, a           *)
(* constraint or a policy on a table whose definition is not part of the   *)
(* sources); such a failure is an input of the step.                       *)
(***************************************************************************)
EXTENDS Integers, Sequences, FiniteSets, TLC

NULL == "null"

\* ------------------------------------------------------------------------
\* Domains
\* ------------------------------------------------------------------------

\* Principals of the identity provider.  u1 is the administrator seeded out
\* of band (no code path grants the admin role), u3 an account that existed
\* before the trigger on_auth_user_created was installed, u2 signs up later.
Users == {"u1", "u2", "u3"}
SeedAdmin == "u1"
LegacyUser == "u3"

\* UserRole, the role type of the client.
Roles == {"admin", "pharmacy", "delivery_agent", "customer"}

\* The roles the sign-up form is used with here, and the roles the
\* administrator grants by hand (customer comes from the trigger, pharmacy
\* from the registration page).
SignUpRoles == {"customer", "pharmacy"}
GrantedRoles == {"admin", "delivery_agent"}

\* The instances of useUserRole in one browser tab: DashboardLayout calls the
\* hook itself and once more through usePharmacyVerification.
HookIds == {"layout", "verification"}

\* The answers of one data-store call as the client sees them.
Outcomes == {"ok", "error", "thrown"}

VARIABLES
    authUsers,     \* principals that exist in auth.users
    metadata,      \* user_metadata.role of each principal (NULL: none)
    profiles,      \* number of rows of public.profiles per user_id
    user_roles,    \* number of rows of public.user_roles per (user_id, role)
    lastRoleInsert,\* what the store did with the latest INSERT INTO user_roles
    pharmacies,    \* public.pharmacies, in order of created_at; id = index
    authUser,      \* useAuth().user of the browser tab (NULL: signed out)
    roleHook,      \* state of each useUserRole instance
    reg,           \* PharmacyRegister.handleSubmit in progress
    deliveries,    \* public.deliveries, by id
    dash,          \* DeliveryDashboard: the deliveries state of each open tab
    products,      \* public.products, by id (NULL: no such row)
    orders,        \* public.orders, in order of insertion; id = index
    order_items,   \* public.order_items, in order of insertion
    lastWrite,     \* what the store did with the latest write to products/orders
    browse,        \* Browse: the products state of the page
    cart,          \* CartProvider: items
    checkout,      \* Cart.handleCheckout in progress
    verification,  \* state of usePharmacyVerification
    orderPage,     \* PharmacyOrders: the orders state of each open page
    rival,         \* Cart of a second browser: its items and its checkout
    storage        \* localStorage of the browser: the text under cart_<user id>

roleVars == <<authUsers, metadata, profiles, user_roles, lastRoleInsert,
              pharmacies, authUser, roleHook, reg>>
deliveryVars == <<deliveries, dash>>
storeVars == <<products, orders, order_items, lastWrite>>
shopVars == <<browse, cart, checkout>>
gateVars == <<verification>>
pageVars == <<orderPage>>
sessionVars == <<rival, storage>>

\* Everything the role registry, the sign-up and the registration page leave
\* alone.
outsideRoles == <<deliveryVars, storeVars, shopVars, gateVars, pageVars, sessionVars>>

\* Rows of public.pharmacies the model lets exist.
MaxPharmacies == 2

\* ------------------------------------------------------------------------
\* public.user_roles and has_role
\* ------------------------------------------------------------------------

\* has_role(_user_id, _role): EXISTS (SELECT 1 FROM user_roles WHERE ...).
has_role(u, r) == u \in Users /\ user_roles[<<u, r>>] > 0

\* The rows a principal's own SELECT role FROM user_roles WHERE user_id = u
\* returns (policy "Users can view own roles"), as the set of their roles.
OwnRoleRows(u) == {r \in Roles : user_roles[<<u, r>>] > 0}

\* Policy "Users can insert pharmacy role for themselves", WITH CHECK.
SelfInsertRolePolicy(actor, u, r) ==
    actor = u /\ r \in {"pharmacy", "customer"}

\* Policy "Admins can manage all roles", FOR ALL.
AdminManageRolesPolicy(actor) == has_role(actor, "admin")

\* Row-level security of INSERT INTO user_roles: permissive policies are
\* OR-ed.
UserRolesInsertAllowed(actor, u, r) ==
    SelfInsertRolePolicy(actor, u, r) \/ AdminManageRolesPolicy(actor)

\* UNIQUE(user_id, role).
NoUniqueRolePair(u, r) == TRUE
UniqueRolePair(u, r) == user_roles[<<u, r>>] = 0

\* INSERT INTO user_roles (user_id, role) issued by actor: whether the store
\* accepts the row.
RoleInsertAccepted(actor, u, r) ==
    UserRolesInsertAllowed(actor, u, r) /\ UniqueRolePair(u, r)

\* The table after an accepted insert.
RolesWith(u, r) == [user_roles EXCEPT ![<<u, r>>] = @ + 1]

\* The store executes INSERT INTO user_roles (user_id, role) VALUES (u, r)
\* for actor.  ok = FALSE is a failure outside the model (the network).
DbInsertRole(actor, u, r, ok) ==
    LET accepted == ok /\ RoleInsertAccepted(actor, u, r)
    IN /\ user_roles' = IF accepted THEN RolesWith(u, r) ELSE user_roles
       /\ lastRoleInsert' = [duplicate |-> user_roles[<<u, r>>] > 0,
                             accepted |-> accepted]

\* ------------------------------------------------------------------------
\* Sign-up: INSERT INTO auth.users fires on_auth_user_created
\* ------------------------------------------------------------------------

\* A trigger function that writes the role row only (not what the code
\* does: the variant the creation property is tested against).
handle_new_user_without_profile(u) ==
    /\ UniqueRolePair(u, "customer")
    /\ profiles' = profiles
    /\ user_roles' = RolesWith(u, "customer")
    /\ lastRoleInsert' = [duplicate |-> FALSE, accepted |-> TRUE]

\* handle_new_user(): one profile row and the role row (NEW.id, customer),
\* in the transaction of the insert into auth.users.
handle_new_user(u) ==
    /\ UniqueRolePair(u, "customer")
    /\ profiles' = [profiles EXCEPT ![u] = @ + 1]
    /\ user_roles' = RolesWith(u, "customer")
    /\ lastRoleInsert' = [duplicate |-> FALSE, accepted |-> TRUE]

\* useAuth.signUp with the role chosen on the sign-up form in the metadata.
SignUp(u, m) ==
    /\ u \notin authUsers
    /\ authUsers' = authUsers \cup {u}
    /\ metadata' = [metadata EXCEPT ![u] = m]
    /\ handle_new_user(u)
    /\ UNCHANGED <<pharmacies, authUser, roleHook, reg>>
    /\ UNCHANGED outsideRoles

\* A direct INSERT INTO user_roles by the administrator (no page of the
\* client issues it; policy "Admins can manage all roles" admits it).
AdminInsertRole(u, r) ==
    /\ u \in authUsers
    /\ DbInsertRole(SeedAdmin, u, r, TRUE)
    /\ UNCHANGED <<authUsers, metadata, profiles, pharmacies, authUser,
                   roleHook, reg>>
    /\ UNCHANGED outsideRoles

\* JSON.stringify(items) and JSON.parse(savedCart): the text of a cart is
\* the list of the values of its items, in the order of the keys.
Stringify(items) ==
    [k \in DOMAIN items |->
        <<items[k].product_id, items[k].price, items[k].quantity,
          items[k].pharmacy_id>>]
Parse(text) ==
    [k \in DOMAIN text |->
        [product_id |-> text[k][1], price |-> text[k][2],
         quantity |-> text[k][3], pharmacy_id |-> text[k][4]]]

\* The effect of CartProvider on [items, user]: with a user,
\* localStorage.setItem(`cart_${user.id}`, JSON.stringify(items)).
Saved(store, user, items) ==
    IF user = NULL THEN store
    ELSE [k \in DOMAIN store \cup {user} |->
            IF k = user THEN Stringify(items) ELSE store[k]]

\* The effect of CartProvider on [user]: the items become the cart saved
\* under cart_<user id> when there is one, and stay what they are when
\* there is none.
Loaded(store, user, items) ==
    IF user \in DOMAIN store THEN Parse(store[user]) ELSE items

\* The session of the browser tab changes (useAuth), and the two effects of
\* CartProvider run: the cart of the principal is loaded and the items are
\* saved under the key of the principal.
SignIn(u) ==
    /\ authUser = NULL
    /\ u \in authUsers
    /\ authUser' = u
    /\ cart' = Loaded(storage, u, cart)
    /\ storage' = Saved(storage, u, cart')
    /\ UNCHANGED <<authUsers, metadata, profiles, user_roles, lastRoleInsert,
                   pharmacies,
                   roleHook, reg>>
    /\ UNCHANGED <<deliveryVars, storeVars, browse, checkout, gateVars,
                   pageVars, rival>>

\* Without a user neither effect of CartProvider does anything: the items
\* stay in memory.
SignOut ==
    /\ authUser # NULL
    /\ authUser' = NULL
    /\ UNCHANGED <<authUsers, metadata, profiles, user_roles, lastRoleInsert,
                   pharmacies,
                   roleHook, reg>>
    /\ UNCHANGED outsideRoles

\* ------------------------------------------------------------------------
\* useUserRole
\* ------------------------------------------------------------------------

\* useState: role null, loading true; the effect has not run yet.
HookInit ==
    [role |-> NULL, loading |-> TRUE, pc |-> "idle", effectUser |-> "unrun",
     fetchUser |-> NULL, data |-> {}, selectOutcome |-> "none",
     insertOutcome |-> "none", insertDenied |-> FALSE, wrote |-> FALSE]

InFlight(h) == roleHook[h].pc \in {"select", "selected", "insert", "inserted"}

\* The priority chain over roles = data.map(d => d.role):
\* admin > pharmacy > delivery_agent > customer.
PriorityRoleNoAgent(roles) ==
    IF "admin" \in roles THEN "admin"
    ELSE IF "pharmacy" \in roles THEN "pharmacy"
    ELSE "customer"
PriorityRole(roles) ==
    IF "admin" \in roles THEN "admin"
    ELSE IF "pharmacy" \in roles THEN "pharmacy"
    ELSE IF "delivery_agent" \in roles THEN "delivery_agent"
    ELSE "customer"

\* The role set from user_metadata.role after the insert was attempted.
MetadataRole(m) ==
    IF m = "admin" THEN "admin"
    ELSE IF m = "pharmacy" THEN "pharmacy"
    ELSE IF m = "delivery_agent" THEN "delivery_agent"
    ELSE "customer"

\* Which branch of fetchUserRole the answer of the select takes:
\* the catch block, if (error), data.length > 0, the metadata fallback with
\* or without a role in the metadata.
SelectBranchIgnoringError(outcome, data, m) ==
    IF outcome = "thrown" THEN "catch"
    ELSE IF outcome = "ok" /\ data # {} THEN "priority"
    ELSE IF m # NULL THEN "fallback_insert"
    ELSE "fallback_customer"
SelectBranch(outcome, data, m) ==
    IF outcome = "thrown" THEN "catch"
    ELSE IF outcome = "error" THEN "error"
    ELSE IF data # {} THEN "priority"
    ELSE IF m # NULL THEN "fallback_insert"
    ELSE "fallback_customer"

\* useEffect(..., [user]): runs after mount and after every change of user.
\* Without a user it sets role null and loading false; with one it calls
\* fetchUserRole, which sends the select.  loading is not set back to true.
UrEffect(h) ==
    /\ roleHook[h].effectUser # authUser
    /\ ~InFlight(h)
    /\ roleHook' = [roleHook EXCEPT ![h] =
          IF authUser = NULL
          THEN [@ EXCEPT !.role = NULL, !.loading = FALSE, !.pc = "idle",
                         !.effectUser = NULL, !.fetchUser = NULL,
                         !.data = {}, !.selectOutcome = "none",
                         !.insertOutcome = "none",
                         !.insertDenied = FALSE, !.wrote = FALSE]
          ELSE [@ EXCEPT !.pc = "select", !.effectUser = authUser,
                         !.fetchUser = authUser, !.data = {},
                         !.selectOutcome = "none",
                         !.insertOutcome = "none",
                         !.insertDenied = FALSE, !.wrote = FALSE]]
    /\ UNCHANGED <<authUsers, metadata, profiles, user_roles, lastRoleInsert,
                   pharmacies,
                   authUser, reg>>
    /\ UNCHANGED outsideRoles

\* The store answers supabase.from('user_roles').select('role').eq(...):
\* the rows of the principal, an error result, or the call throws.
UrSelectAnswer(h, o) ==
    /\ roleHook[h].pc = "select"
    /\ roleHook' = [roleHook EXCEPT ![h] =
          [@ EXCEPT !.pc = "selected", !.selectOutcome = o,
                    !.data = IF o = "ok"
                             THEN OwnRoleRows(roleHook[h].fetchUser)
                             ELSE {}]]
    /\ UNCHANGED <<authUsers, metadata, profiles, user_roles, lastRoleInsert,
                   pharmacies,
                   authUser, reg>>
    /\ UNCHANGED outsideRoles

\* fetchUserRole continues after the await of the select.
UrSelectHandle(h) ==
    /\ roleHook[h].pc = "selected"
    /\ LET hk == roleHook[h]
           b == SelectBranch(hk.selectOutcome, hk.data,
                             metadata[hk.fetchUser])
       IN roleHook' = [roleHook EXCEPT ![h] =
            CASE b \in {"catch", "error", "fallback_customer"} ->
                   [@ EXCEPT !.role = "customer", !.loading = FALSE,
                             !.pc = "done"]
              [] b = "priority" ->
                   [@ EXCEPT !.role = PriorityRole(hk.data),
                             !.loading = FALSE, !.pc = "done"]
              [] b = "fallback_insert" ->
                   [@ EXCEPT !.pc = "insert"]]
    /\ UNCHANGED <<authUsers, metadata, profiles, user_roles, lastRoleInsert,
                   pharmacies,
                   authUser, reg>>
    /\ UNCHANGED outsideRoles

\* The store answers the insert of { user_id: user.id, role: metadataRole }:
\* the row is stored when the policies and UNIQUE(user_id, role) accept it
\* and nothing else fails; otherwise an error result, or the call throws.
\* insertDenied marks the error result of a row the store does not accept.
UrInsertAnswer(h, o) ==
    /\ roleHook[h].pc = "insert"
    /\ LET u == roleHook[h].fetchUser
           m == metadata[u]
       IN /\ (o = "ok") => RoleInsertAccepted(u, u, m)
          /\ DbInsertRole(u, u, m, o = "ok")
          /\ roleHook' = [roleHook EXCEPT ![h] =
                [@ EXCEPT !.pc = "inserted", !.insertOutcome = o,
                          !.insertDenied = (o = "error"
                                            /\ ~RoleInsertAccepted(u, u, m)),
                          !.wrote = (o = "ok")]]
    /\ UNCHANGED <<authUsers, metadata, profiles, pharmacies, authUser, reg>>
    /\ UNCHANGED outsideRoles

\* A continuation without the finally block: loading stays what it was (not
\* what the code does: the variant the termination property is tested
\* against).
UrInsertHandleWithoutFinally(h) ==
    /\ roleHook[h].pc = "inserted"
    /\ roleHook' = [roleHook EXCEPT ![h] =
          [@ EXCEPT !.role = IF roleHook[h].insertOutcome = "thrown"
                             THEN "customer"
                             ELSE MetadataRole(metadata[roleHook[h].fetchUser]),
                    !.pc = "done"]]
    /\ UNCHANGED <<authUsers, metadata, profiles, user_roles, lastRoleInsert,
                   pharmacies,
                   authUser, reg>>
    /\ UNCHANGED outsideRoles

\* fetchUserRole continues after the await of the insert: insertError is
\* only logged and the role is set from the metadata; a throw reaches the
\* catch block.
UrInsertHandle(h) ==
    /\ roleHook[h].pc = "inserted"
    /\ roleHook' = [roleHook EXCEPT ![h] =
          [@ EXCEPT !.role = IF roleHook[h].insertOutcome = "thrown"
                             THEN "customer"
                             ELSE MetadataRole(metadata[roleHook[h].fetchUser]),
                    !.loading = FALSE, !.pc = "done"]]
    /\ UNCHANGED <<authUsers, metadata, profiles, user_roles, lastRoleInsert,
                   pharmacies,
                   authUser, reg>>
    /\ UNCHANGED outsideRoles

\* ------------------------------------------------------------------------
\* PharmacyRegister.handleSubmit
\* ------------------------------------------------------------------------

\* Policies "Pharmacies can insert own data" and "Admins can manage all
\* pharmacies" on INSERT INTO pharmacies.
PharmaciesInsertAllowed(actor, owner) ==
    actor = owner \/ has_role(actor, "admin")

\* The row the form inserts: verification_status is left to its column
\* default, 'pending'.
NewPharmacyRow(owner) == [user_id |-> owner, verification_status |-> "pending"]

\* First await: the insert into pharmacies.  ok = FALSE stands for a failure
\* of the call (a duplicate license_number, the network): the handler throws
\* and ends.
RegInsertPharmacy(ok) ==
    /\ authUser # NULL
    /\ reg.pc = "idle"
    /\ Len(pharmacies) < MaxPharmacies
    /\ IF ok /\ PharmaciesInsertAllowed(authUser, authUser)
       THEN /\ pharmacies' = Append(pharmacies, NewPharmacyRow(authUser))
            /\ reg' = [pc |-> "role", user |-> authUser]
       ELSE UNCHANGED <<pharmacies, reg>>
    /\ UNCHANGED <<authUsers, metadata, profiles, user_roles, lastRoleInsert,
                   authUser, roleHook>>
    /\ UNCHANGED outsideRoles

\* Second await: the insert of { user_id: user.id, role: 'pharmacy' }; a
\* rejected insert makes the handler throw, the pharmacy row stays.
RegInsertRole(ok) ==
    /\ reg.pc = "role"
    /\ DbInsertRole(reg.user, reg.user, "pharmacy", ok)
    /\ reg' = [pc |-> "idle", user |-> NULL]
    /\ UNCHANGED <<authUsers, metadata, profiles, pharmacies, authUser,
                   roleHook>>
    /\ UNCHANGED outsideRoles

\* UPDATE on pharmacies: "Pharmacies can update own data" (USING
\* auth.uid() = user_id, which is also the check of the new row) and
\* "Admins can manage all pharmacies".  No policy names a column.
PharmaciesUpdateAllowed(actor, row) ==
    actor = row.user_id \/ has_role(actor, "admin")

\* An insert into pharmacies sent to the REST interface of the store by a
\* principal, with the columns of their choice.
RequestInsertPharmacy(actor, owner, status, ok) ==
    /\ actor \in authUsers
    /\ Len(pharmacies) < MaxPharmacies
    /\ pharmacies' =
          IF ok /\ PharmaciesInsertAllowed(actor, owner)
          THEN Append(pharmacies,
                      [user_id |-> owner, verification_status |-> status])
          ELSE pharmacies
    /\ UNCHANGED <<authUsers, metadata, profiles, user_roles, lastRoleInsert,
                   authUser, roleHook, reg>>
    /\ UNCHANGED outsideRoles

\* An update of verification_status sent to the REST interface of the store
\* by a principal.  A row the policies hide from the principal is not
\* updated, and no error is returned.
RequestUpdatePharmacy(actor, ph, status, ok) ==
    /\ actor \in authUsers
    /\ ph \in DOMAIN pharmacies
    /\ LET old == pharmacies[ph]
           new == [old EXCEPT !.verification_status = status]
           accepted == /\ ok
                       /\ PharmaciesUpdateAllowed(actor, old)
                       /\ PharmaciesUpdateAllowed(actor, new)
       IN pharmacies' = IF accepted THEN [pharmacies EXCEPT ![ph] = new]
                        ELSE pharmacies
    /\ UNCHANGED <<authUsers, metadata, profiles, user_roles, lastRoleInsert,
                   authUser, roleHook, reg>>
    /\ UNCHANGED outsideRoles

\* ------------------------------------------------------------------------
\* public.deliveries: AdminDeliveries, DeliveryDashboard, PharmacyOrders
\* ------------------------------------------------------------------------

DeliveryIds == {"d1", "d2"}
DeliveryStatuses == {"pending", "in-transit", "delivered"}

\* The readings of new Date().toISOString().
Timestamps == {"t1"}

\* The principals the administrator types into the Agent ID field.
Agents == Users \ {SeedAdmin}

\* A delivery as it is created for an order: status pending, nothing
\* confirmed, no agent, not delivered.
NewDelivery ==
    [status_delivery |-> "pending", delivered_at |-> NULL,
     confirmed_by_admin |-> FALSE, confirmed_by_pharmacy |-> FALSE,
     delivery_agent_id |-> NULL]

\* A status update that would also write the handover flag (not what the
\* code does: the variant the frame property is tested against).
StatusUpdateResettingFlags(row, status, t) ==
    IF status = "delivered"
    THEN [row EXCEPT !.status_delivery = status, !.delivered_at = t,
                     !.confirmed_by_pharmacy = FALSE]
    ELSE [row EXCEPT !.status_delivery = status,
                     !.confirmed_by_pharmacy = FALSE]

\* updateData of updateDeliveryStatus applied to a row: status_delivery
\* always, delivered_at only when the status is delivered.  The same code is
\* in AdminDeliveries and in DeliveryDashboard.
StatusUpdate(row, status, t) ==
    IF status = "delivered"
    THEN [row EXCEPT !.status_delivery = status, !.delivered_at = t]
    ELSE [row EXCEPT !.status_delivery = status]

\* UPDATE deliveries SET ... WHERE id = d.  ok = FALSE is an error result of
\* the call (the definition and the policies of the table are not part of
\* the sources): the handler throws into its catch and the row stays.
DbUpdateDelivery(d, row, ok) ==
    deliveries' = IF ok THEN [deliveries EXCEPT ![d] = row] ELSE deliveries

\* AdminDeliveries.updateDeliveryStatus: the Select of a delivery card offers
\* the three statuses whatever the current one is.
AdminUpdateDeliveryStatus(d, status, t, ok) ==
    /\ DbUpdateDelivery(d, StatusUpdate(deliveries[d], status, t), ok)
    /\ UNCHANGED <<dash, roleVars, storeVars, shopVars, gateVars, pageVars, sessionVars>>

\* A confirmation that flips the flag (not what the code does: the variant
\* the one-way property is tested against).
AdminToggleConfirmation(d, ok) ==
    /\ DbUpdateDelivery(d, [deliveries[d] EXCEPT !.confirmed_by_admin = ~@],
                        ok)
    /\ UNCHANGED <<dash, roleVars, storeVars, shopVars, gateVars, pageVars, sessionVars>>

\* AdminDeliveries.confirmDelivery(id, 'admin').
AdminConfirmDelivery(d, ok) ==
    /\ DbUpdateDelivery(d, [deliveries[d] EXCEPT !.confirmed_by_admin = TRUE],
                        ok)
    /\ UNCHANGED <<dash, roleVars, storeVars, shopVars, gateVars, pageVars, sessionVars>>

\* AdminDeliveries.assignDeliveryAgent, from the Agent ID field.
AdminAssignDeliveryAgent(d, a, ok) ==
    /\ DbUpdateDelivery(d, [deliveries[d] EXCEPT !.delivery_agent_id = a], ok)
    /\ UNCHANGED <<dash, roleVars, storeVars, shopVars, gateVars, pageVars, sessionVars>>

\* PharmacyOrders.confirmDelivery: the handover button of an order card.
PharmacyConfirmDelivery(d, ok) ==
    /\ DbUpdateDelivery(d,
          [deliveries[d] EXCEPT !.confirmed_by_pharmacy = TRUE], ok)
    /\ UNCHANGED <<dash, roleVars, storeVars, shopVars, gateVars, pageVars, sessionVars>>

\* The browser tabs that are followed at a time.
Tabs == {"tab1", "tab2"}

\* useState<Delivery[]>([]) of a dashboard that has not loaded; user is the
\* principal of the tab once the dashboard has loaded.
NoDash == [user |-> NULL, rows |-> <<>>]

\* A store that lets any principal update any delivery (not what the
\* specification describes: the variant the agent rule is tested against).
AnyPrincipalUpdatesDelivery(actor, row) == TRUE

\* The rule of the store for an update of a delivery by a delivery agent:
\* the agent must equal delivery_agent_id of the row.  The rule is a row
\* predicate: it does not look at the columns the update names.
AssignedAgentUpdatesDelivery(actor, row) == row.delivery_agent_id = actor

\* The rows DeliveryDashboard.fetchDeliveries selects for the signed-in
\* agent: .eq('delivery_agent_id', user.id).
AssignedTo(a) == {d \in DeliveryIds : deliveries[d].delivery_agent_id = a}

\* DeliveryDashboard.fetchDeliveries in a tab of principal u:
\* setDeliveries(rows) on success, the state is kept on an error.
DashFetchDeliveries(s, u, ok) ==
    /\ u \in authUsers
    /\ dash[s].user \in {NULL, u}
    /\ dash' = IF ok
               THEN [dash EXCEPT
                       ![s] = [user |-> u,
                               rows |-> [d \in AssignedTo(u) |->
                                           deliveries[d]]]]
               ELSE dash
    /\ UNCHANGED <<deliveries, roleVars, storeVars, shopVars, gateVars, pageVars, sessionVars>>

\* The status a card of the dashboard offers next: Start Delivery on a
\* pending card, Mark Delivered on one in transit, nothing on a delivered
\* one.
NextAgentStatus(status) ==
    IF status = "pending" THEN "in-transit" ELSE "delivered"

\* DeliveryDashboard.updateDeliveryStatus from the button of a card; the
\* card shows the row as the tab last loaded or changed it.  An update the
\* store refuses changes no row and returns no error: the handler changes
\* its card unless the call returned an error (ok = FALSE).
AgentUpdateDeliveryStatus(s, d, t, ok) ==
    /\ d \in DOMAIN dash[s].rows
    /\ dash[s].rows[d].status_delivery # "delivered"
    /\ LET status == NextAgentStatus(dash[s].rows[d].status_delivery)
           applied ==
               ok /\ AssignedAgentUpdatesDelivery(dash[s].user, deliveries[d])
       IN /\ DbUpdateDelivery(d, StatusUpdate(deliveries[d], status, t),
                              applied)
          /\ dash' = IF ok
                     THEN [dash EXCEPT
                             ![s].rows[d] = StatusUpdate(@, status, t)]
                     ELSE dash
    /\ UNCHANGED <<roleVars, storeVars, shopVars, gateVars, pageVars, sessionVars>>

\* DeliveryDashboard.confirmDelivery: Confirm Pickup, on a card in transit
\* that is not confirmed by the pharmacy.
AgentConfirmDelivery(s, d, ok) ==
    /\ d \in DOMAIN dash[s].rows
    /\ dash[s].rows[d].status_delivery = "in-transit"
    /\ ~dash[s].rows[d].confirmed_by_pharmacy
    /\ DbUpdateDelivery(d,
          [deliveries[d] EXCEPT !.confirmed_by_pharmacy = TRUE],
          ok /\ AssignedAgentUpdatesDelivery(dash[s].user, deliveries[d]))
    /\ dash' = IF ok
               THEN [dash EXCEPT ![s].rows[d].confirmed_by_pharmacy = TRUE]
               ELSE dash
    /\ UNCHANGED <<roleVars, storeVars, shopVars, gateVars, pageVars, sessionVars>>

\* ------------------------------------------------------------------------
\* public.products and public.orders: row-level policies and the writes of
\* PharmacyProducts and PharmacyOrders
\* ------------------------------------------------------------------------

ProductIds == {"p1", "p2", "p3"}

\* The price typed into the product form of each product.
PriceOf == [p1 |-> 5, p2 |-> 3, p3 |-> 4]

\* The statuses the buttons of an order card of PharmacyOrders set.
CardStatuses == {"approved", "cancelled", "delivered"}

\* EXISTS (SELECT 1 FROM pharmacies p WHERE p.id = pharmacy_id AND
\* p.user_id = auth.uid()), the subquery of the ownership policies.
PharmacyExists(actor, ph) == ph \in DOMAIN pharmacies
OwnsPharmacy(actor, ph) ==
    ph \in DOMAIN pharmacies /\ pharmacies[ph].user_id = actor

\* Policies on products.
ViewActiveOfApprovedPolicy(row) ==
    row.is_active /\ pharmacies[row.pharmacy_id].verification_status = "approved"
ViewActiveProductsPolicy(row) == row.is_active
ManageOwnProductsPolicy(actor, row) == OwnsPharmacy(actor, row.pharmacy_id)
AdminManageProductsPolicy(actor) == has_role(actor, "admin")

\* SELECT on products: the three permissive policies OR-ed.
ProductsSelectAllowed(actor, row) ==
    \/ ViewActiveProductsPolicy(row)
    \/ ManageOwnProductsPolicy(actor, row)
    \/ AdminManageProductsPolicy(actor)

\* INSERT, UPDATE and DELETE on products: the two FOR ALL policies; their
\* USING expression is also the check of a new row.
ProductsWriteAllowed(actor, row) ==
    ManageOwnProductsPolicy(actor, row) \/ AdminManageProductsPolicy(actor)

\* Policies on orders.
CreateOrdersPolicy(actor, row) == actor = row.customer_id
UpdateOwnOrdersPolicy(actor, row) == OwnsPharmacy(actor, row.pharmacy_id)
AdminManageOrdersPolicy(actor) == has_role(actor, "admin")

OrdersInsertAllowed(actor, row) ==
    CreateOrdersPolicy(actor, row) \/ AdminManageOrdersPolicy(actor)

OrdersUpdateAllowed(actor, row) ==
    UpdateOwnOrdersPolicy(actor, row) \/ AdminManageOrdersPolicy(actor)

\* Policy "Customers can insert order items".
OrderItemsInsertAllowed(actor, item) ==
    item.order_id \in DOMAIN orders
        /\ orders[item.order_id].customer_id = actor

\* SELECT on pharmacies: own data, the administrator, approved pharmacies.
PharmaciesSelectAllowed(actor, row) ==
    \/ actor = row.user_id
    \/ has_role(actor, "admin")
    \/ row.verification_status = "approved"

\* A table keyed by id with one row more, and with one row less.
WithRow(table, id, row) ==
    [k \in DOMAIN table \cup {id} |-> IF k = id THEN row ELSE table[k]]
WithoutRow(table, id) == [k \in DOMAIN table \ {id} |-> table[k]]

\* What the store notes of a write by the signed-in principal: who asked,
\* whether they hold the admin role, who owns the pharmacy of the row, and
\* what became of the statement.
NoWrite ==
    [op |-> "none", actor |-> NULL, admin |-> FALSE, owner |-> NULL,
     accepted |-> FALSE, changed |-> FALSE]
Written(op, ph, accepted, changed) ==
    [op |-> op, actor |-> authUser, admin |-> has_role(authUser, "admin"),
     owner |-> pharmacies[ph].user_id, accepted |-> accepted,
     changed |-> changed]

\* supabase.from('products').insert({ ...productData, pharmacy_id }): the
\* page sends the newest pharmacy of the principal, a request may name any.
\* ok = FALSE is a failure of the call outside the model.
InsertProduct(p, ph, active, ok) ==
    /\ authUser # NULL
    /\ p \notin DOMAIN products
    /\ ph \in DOMAIN pharmacies
    /\ LET row == [pharmacy_id |-> ph, price |-> PriceOf[p],
                   is_active |-> active, stock_quantity |-> 1]
           accepted == ok /\ ProductsWriteAllowed(authUser, row)
       IN /\ products' = IF accepted THEN WithRow(products, p, row)
                         ELSE products
          /\ lastWrite' = Written("insert", ph, accepted,
                                  products' # products)
    /\ UNCHANGED <<orders, order_items>>
    /\ UNCHANGED <<roleVars, deliveryVars, shopVars, gateVars, pageVars, sessionVars>>

\* supabase.from('products').update(...).eq('id', p): handleSubmit sends the
\* form, toggleProductStatus the negated is_active; a request may also name
\* pharmacy_id.  A row the policies hide from the principal is not updated.
UpdateProduct(p, ph, active, ok) ==
    /\ authUser # NULL
    /\ p \in DOMAIN products
    /\ ph \in DOMAIN pharmacies
    /\ LET old == products[p]
           new == [old EXCEPT !.pharmacy_id = ph, !.is_active = active]
           accepted == /\ ok
                       /\ ProductsWriteAllowed(authUser, old)
                       /\ ProductsWriteAllowed(authUser, new)
       IN /\ products' = IF accepted THEN [products EXCEPT ![p] = new]
                         ELSE products
          /\ lastWrite' = Written("update", old.pharmacy_id, accepted,
                                  products' # products)
    /\ UNCHANGED <<orders, order_items>>
    /\ UNCHANGED <<roleVars, deliveryVars, shopVars, gateVars, pageVars, sessionVars>>

\* The rows of order_items that reference no deleted product:
\* product_id REFERENCES products(id) ON DELETE CASCADE.
CascadeProduct(items, p) == SelectSeq(items, LAMBDA i : i.product_id # p)

\* supabase.from('products').delete().eq('id', p).
DeleteProduct(p, ok) ==
    /\ authUser # NULL
    /\ p \in DOMAIN products
    /\ LET old == products[p]
           accepted == ok /\ ProductsWriteAllowed(authUser, old)
       IN /\ products' = IF accepted THEN WithoutRow(products, p)
                         ELSE products
          /\ order_items' = IF accepted THEN CascadeProduct(order_items, p)
                            ELSE order_items
          /\ lastWrite' = Written("delete", old.pharmacy_id, accepted,
                                  products' # products)
    /\ UNCHANGED orders
    /\ UNCHANGED <<roleVars, deliveryVars, shopVars, gateVars, pageVars, sessionVars>>

\* PharmacyOrders.updateOrderStatus:
\* supabase.from('orders').update({ status }).eq('id', o).
UpdateOrderStatus(o, status, ok) ==
    /\ authUser # NULL
    /\ o \in DOMAIN orders
    /\ LET old == orders[o]
           accepted == ok /\ OrdersUpdateAllowed(authUser, old)
       IN /\ orders' = IF accepted THEN [orders EXCEPT ![o].status = status]
                       ELSE orders
          /\ lastWrite' = Written("order", old.pharmacy_id, accepted,
                                  orders' # orders)
    /\ UNCHANGED <<products, order_items>>
    /\ UNCHANGED <<roleVars, deliveryVars, shopVars, gateVars, pageVars, sessionVars>>

\* ------------------------------------------------------------------------
\* PharmacyProducts.handleSubmit in the browser of a pharmacy
\* ------------------------------------------------------------------------

\* The prices the form of a product is sent with: the price the product was
\* created with and a raised one.
FormPrices(p) == {PriceOf[p], PriceOf[p] + 1}

\* handleSubmit with editingProduct set, by a principal signed in in a
\* browser of their own: supabase.from('products').update(productData)
\* .eq('id', p) with the price of the form, every other field as it was
\* loaded.  A row the policies hide from the principal is not updated.
SubmitProductPrice(actor, p, price, ok) ==
    /\ actor \in authUsers
    /\ p \in DOMAIN products
    /\ LET old == products[p]
           new == [old EXCEPT !.price = price]
           accepted == /\ ok
                       /\ ProductsWriteAllowed(actor, old)
                       /\ ProductsWriteAllowed(actor, new)
       IN /\ products' = IF accepted THEN [products EXCEPT ![p] = new]
                         ELSE products
          /\ lastWrite' = [op |-> "update", actor |-> actor,
                           admin |-> has_role(actor, "admin"),
                           owner |-> pharmacies[old.pharmacy_id].user_id,
                           accepted |-> accepted,
                           changed |-> products' # products]
    /\ UNCHANGED <<orders, order_items>>
    /\ UNCHANGED <<roleVars, deliveryVars, shopVars, gateVars, pageVars,
                   sessionVars>>

\* ------------------------------------------------------------------------
\* Browse.fetchProducts
\* ------------------------------------------------------------------------

NoBrowse == [loaded |-> FALSE, user |-> NULL, rows |-> <<>>]

\* pharmacy:pharmacies(id, name, verification_status), a to-one embed: the
\* pharmacy of the product when the policies on pharmacies show it to the
\* principal, null (here the empty set) when they hide it.
EmbeddedPharmacy(actor, ph) ==
    IF PharmaciesSelectAllowed(actor, pharmacies[ph])
    THEN {[id |-> ph,
           verification_status |-> pharmacies[ph].verification_status]}
    ELSE {}

\* The rows of select('*, pharmacy:pharmacies(...)').eq('is_active', true)
\* for a principal: the products the SELECT policies show that pass the
\* filter of the query.
BrowseRows(actor) ==
    [p \in {q \in DOMAIN products :
               /\ ProductsSelectAllowed(actor, products[q])
               /\ products[q].is_active = TRUE} |->
        [price |-> products[p].price,
         stock_quantity |-> products[p].stock_quantity,
         is_active |-> products[p].is_active,
         pharmacy_id |-> products[p].pharmacy_id,
         pharmacy |-> EmbeddedPharmacy(actor, products[p].pharmacy_id)]]

\* Browse.fetchProducts: setProducts(data) on success; on an error the
\* state keeps what it had.
BrowseFetchProducts(ok) ==
    /\ authUser # NULL
    /\ browse' = IF ok
                 THEN [loaded |-> TRUE, user |-> authUser,
                       rows |-> BrowseRows(authUser)]
                 ELSE browse
    /\ UNCHANGED <<cart, checkout>>
    /\ UNCHANGED <<roleVars, deliveryVars, storeVars, gateVars, pageVars, sessionVars>>

\* The product cards read product.pharmacy.name of every row: the page
\* renders only when every row came with its pharmacy.
BrowseRenders == \A p \in DOMAIN browse.rows : browse.rows[p].pharmacy # {}

\* ------------------------------------------------------------------------
\* CartProvider (useCart) and Cart.handleCheckout
\* ------------------------------------------------------------------------

\* The largest quantity of one cart line, and the orders the store holds at
\* most.  Once the store holds MaxOrders orders no checkout starts and no
\* order is inserted.
MaxQuantity == 2
MaxOrders == 2

StoreHasRoom == Len(orders) < MaxOrders

\* The cart is edited until an order is stored; from then on only the
\* checkouts of the cart as it is are followed.
CartOpen == orders = <<>>

\* The locals of handleCheckout; those of the run that ended last are kept
\* until the cart is used again.
CheckoutIdle ==
    [pc |-> "idle", result |-> "none", customer |-> NULL, items |-> <<>>,
     groups |-> <<>>, order |-> 0, created |-> <<>>]

\* The index of the cart line of a product, 0 when there is none
\* (current.find(item => item.product_id === ...)).
LineOf(items, p) ==
    IF \E k \in DOMAIN items : items[k].product_id = p
    THEN CHOOSE k \in DOMAIN items : items[k].product_id = p
    ELSE 0

\* addToCart from the button of a product card of Browse (disabled when
\* stock_quantity <= 0): quantity + 1 on the line of the product, or a new
\* line with quantity 1 at the end.
AddToCart(p) ==
    /\ authUser # NULL
    /\ CartOpen
    /\ checkout.pc = "idle"
    /\ browse.loaded /\ BrowseRenders
    /\ p \in DOMAIN browse.rows
    /\ browse.rows[p].stock_quantity > 0
    /\ LET k == LineOf(cart, p)
           ph == (CHOOSE e \in browse.rows[p].pharmacy : TRUE).id
       IN IF k # 0
          THEN /\ cart[k].quantity < MaxQuantity
               /\ cart' = [cart EXCEPT ![k].quantity = @ + 1]
          ELSE cart' = Append(cart, [product_id |-> p,
                                     price |-> browse.rows[p].price,
                                     quantity |-> 1, pharmacy_id |-> ph])
    /\ checkout' = CheckoutIdle
    /\ storage' = Saved(storage, authUser, cart')
    /\ UNCHANGED <<browse, rival>>
    /\ UNCHANGED <<roleVars, deliveryVars, storeVars, gateVars, pageVars>>

\* removeFromCart: current.filter(item => item.product_id !== productId).
WithoutLine(items, p) == SelectSeq(items, LAMBDA i : i.product_id # p)

RemoveFromCart(p) ==
    /\ CartOpen
    /\ checkout.pc = "idle"
    /\ LineOf(cart, p) # 0
    /\ cart' = WithoutLine(cart, p)
    /\ checkout' = CheckoutIdle
    /\ storage' = Saved(storage, authUser, cart')
    /\ UNCHANGED <<browse, rival>>
    /\ UNCHANGED <<roleVars, deliveryVars, storeVars, gateVars, pageVars>>

\* An updateQuantity that stores the quantity whatever it is (not what the
\* code does: the variant the cart invariant is tested against).
UpdateQuantityStoring(p, q) ==
    /\ CartOpen
    /\ checkout.pc = "idle"
    /\ LineOf(cart, p) # 0
    /\ cart' = [cart EXCEPT ![LineOf(cart, p)].quantity = q]
    /\ checkout' = CheckoutIdle
    /\ storage' = Saved(storage, authUser, cart')
    /\ UNCHANGED <<browse, rival>>
    /\ UNCHANGED <<roleVars, deliveryVars, storeVars, gateVars, pageVars>>

\* updateQuantity: a quantity <= 0 removes the line, any other replaces the
\* quantity of the line.
UpdateQuantity(p, q) ==
    /\ CartOpen
    /\ checkout.pc = "idle"
    /\ LineOf(cart, p) # 0
    /\ cart' = IF q <= 0 THEN WithoutLine(cart, p)
               ELSE [cart EXCEPT ![LineOf(cart, p)].quantity = q]
    /\ checkout' = CheckoutIdle
    /\ storage' = Saved(storage, authUser, cart')
    /\ UNCHANGED <<browse, rival>>
    /\ UNCHANGED <<roleVars, deliveryVars, storeVars, gateVars, pageVars>>

\* clearCart: setItems([]).
ClearCart ==
    /\ CartOpen
    /\ checkout.pc = "idle"
    /\ cart' = <<>>
    /\ checkout' = CheckoutIdle
    /\ storage' = Saved(storage, authUser, cart')
    /\ UNCHANGED <<browse, rival>>
    /\ UNCHANGED <<roleVars, deliveryVars, storeVars, gateVars, pageVars>>

\* totalItems and totalPrice of the cart context: items.reduce((sum, item)
\* => sum + item.quantity, 0) and items.reduce((sum, item) => sum +
\* (item.price * item.quantity), 0), over the first n items.
RECURSIVE ItemsOfFirst(_, _)
ItemsOfFirst(items, n) ==
    IF n = 0 THEN 0 ELSE ItemsOfFirst(items, n - 1) + items[n].quantity
RECURSIVE PriceOfFirst(_, _)
PriceOfFirst(items, n) ==
    IF n = 0 THEN 0
    ELSE PriceOfFirst(items, n - 1) + (items[n].price * items[n].quantity)

totalItems(items) == ItemsOfFirst(items, Len(items))
totalPrice(items) == PriceOfFirst(items, Len(items))

\* itemsByPharmacy: items.reduce over the first n items, as the list of the
\* entries of the accumulator in order of insertion.
RECURSIVE GroupFirst(_, _)
GroupFirst(items, n) ==
    IF n = 0 THEN <<>>
    ELSE LET acc == GroupFirst(items, n - 1)
             item == items[n]
         IN IF \E j \in DOMAIN acc : acc[j].pharmacy_id = item.pharmacy_id
            THEN [j \in DOMAIN acc |->
                    IF acc[j].pharmacy_id = item.pharmacy_id
                    THEN [acc[j] EXCEPT !.items = Append(@, item)]
                    ELSE acc[j]]
            ELSE Append(acc, [pharmacy_id |-> item.pharmacy_id,
                              items |-> <<item>>])

itemsPerLine(items) ==
    [k \in DOMAIN items |->
        [pharmacy_id |-> items[k].pharmacy_id, items |-> <<items[k]>>]]
itemsByPharmacy(items) == GroupFirst(items, Len(items))

\* The sum of the prices of the items, whatever their quantities (not what
\* the code does: the variant the totals are tested against).
RECURSIVE orderTotalOfPrices(_)
orderTotalOfPrices(items) ==
    IF items = <<>> THEN 0
    ELSE orderTotalOfPrices(Tail(items)) + Head(items).price

\* orderTotal: pharmacyItems.reduce((sum, item) => sum + item.price *
\* item.quantity, 0).
RECURSIVE orderTotal(_)
orderTotal(items) ==
    IF items = <<>> THEN 0
    ELSE orderTotal(Tail(items)) + Head(items).price * Head(items).quantity

\* Order rows whose total_price is the unit price (not what the code does:
\* the variant the item arithmetic is tested against).
orderItemsAtUnitPrice(order, items) ==
    [k \in DOMAIN items |->
        [order_id |-> order, product_id |-> items[k].product_id,
         quantity |-> items[k].quantity, unit_price |-> items[k].price,
         total_price |-> items[k].price]]

\* orderItems: the rows of one order from the items of its pharmacy.
orderItems(order, items) ==
    [k \in DOMAIN items |->
        [order_id |-> order, product_id |-> items[k].product_id,
         quantity |-> items[k].quantity, unit_price |-> items[k].price,
         total_price |-> items[k].price * items[k].quantity]]

\* handleCheckout up to its first await: it returns without a user, with an
\* empty cart and with an empty delivery address; otherwise it groups the
\* items it was rendered with.
StartCheckout(address) ==
    /\ checkout.pc = "idle"
    /\ authUser # NULL
    /\ cart # <<>>
    /\ StoreHasRoom
    /\ checkout' = IF address
                   THEN [pc |-> "order", result |-> "none",
                         customer |-> authUser, items |-> cart,
                         groups |-> itemsByPharmacy(cart), order |-> 0,
                         created |-> <<>>]
                   ELSE checkout
    /\ UNCHANGED <<browse, cart>>
    /\ UNCHANGED <<roleVars, deliveryVars, storeVars, gateVars, pageVars, sessionVars>>

\* A checkout that goes on with the next group when the insert of an order
\* fails (not what the code does: the variant the failure property is
\* tested against).
CheckoutInsertOrderSkipping(ok) ==
    /\ checkout.pc = "order"
    /\ StoreHasRoom
    /\ LET group == Head(checkout.groups)
           row == [customer_id |-> checkout.customer,
                   pharmacy_id |-> group.pharmacy_id,
                   total_amount |-> orderTotal(group.items),
                   status |-> "pending"]
           accepted == ok /\ OrdersInsertAllowed(checkout.customer, row)
           last == Len(checkout.groups) = 1
       IN IF accepted
          THEN /\ orders' = Append(orders, row)
               /\ checkout' = [checkout EXCEPT !.pc = "items",
                                               !.order = Len(orders) + 1]
          ELSE /\ orders' = orders
               /\ checkout' =
                    [checkout EXCEPT
                        !.groups = Tail(@),
                        !.pc = IF last THEN "idle" ELSE "order",
                        !.result = IF last THEN "failed" ELSE "none"]
    /\ UNCHANGED <<products, order_items, lastWrite, browse, cart>>
    /\ UNCHANGED <<roleVars, deliveryVars, gateVars, pageVars, sessionVars>>

\* The insert of the order of the first group left, .select().single().
\* A refused or failed insert throws: the catch block ends the handler.
CheckoutInsertOrder(ok) ==
    /\ checkout.pc = "order"
    /\ StoreHasRoom
    /\ LET group == Head(checkout.groups)
           row == [customer_id |-> checkout.customer,
                   pharmacy_id |-> group.pharmacy_id,
                   total_amount |-> orderTotal(group.items),
                   status |-> "pending"]
           accepted == ok /\ OrdersInsertAllowed(checkout.customer, row)
       IN IF accepted
          THEN /\ orders' = Append(orders, row)
               /\ checkout' = [checkout EXCEPT !.pc = "items",
                                               !.order = Len(orders) + 1]
          ELSE /\ orders' = orders
               /\ checkout' = [checkout EXCEPT !.pc = "idle",
                                               !.result = "failed"]
    /\ UNCHANGED <<products, order_items, lastWrite, browse, cart>>
    /\ UNCHANGED <<roleVars, deliveryVars, gateVars, pageVars, sessionVars>>

\* A checkout that reserves the stock with the items: the insert is refused
\* when a quantity exceeds stock_quantity, and stock_quantity goes down by
\* the quantity (not what the code does: the variant the concurrency
\* property is tested against).
CheckoutInsertItemsReserving(ok) ==
    /\ checkout.pc = "items"
    /\ LET group == Head(checkout.groups)
           rows == orderItems(checkout.order, group.items)
           accepted ==
               /\ ok
               /\ \A k \in DOMAIN rows :
                      /\ OrderItemsInsertAllowed(checkout.customer, rows[k])
                      /\ rows[k].quantity
                            <= products[rows[k].product_id].stock_quantity
           last == Len(checkout.groups) = 1
       IN IF accepted
          THEN /\ order_items' = order_items \o rows
               /\ products' =
                    [p \in DOMAIN products |->
                        IF \E k \in DOMAIN rows : rows[k].product_id = p
                        THEN [products[p] EXCEPT !.stock_quantity =
                                 @ - group.items[LineOf(group.items, p)].quantity]
                        ELSE products[p]]
               /\ checkout' =
                    [checkout EXCEPT
                        !.groups = Tail(@),
                        !.created = Append(@, checkout.order),
                        !.pc = IF last THEN "idle" ELSE "order",
                        !.result = IF last THEN "placed" ELSE "none"]
               /\ cart' = IF last THEN <<>> ELSE cart
          ELSE /\ order_items' = order_items
               /\ products' = products
               /\ checkout' = [checkout EXCEPT !.pc = "idle",
                                               !.result = "failed"]
               /\ cart' = cart
    /\ storage' = Saved(storage, authUser, cart')
    /\ UNCHANGED <<orders, lastWrite, browse, rival>>
    /\ UNCHANGED <<roleVars, deliveryVars, gateVars, pageVars>>

\* The insert of the items of the order just created, one statement for all
\* rows.  A refused or failed insert throws and the order stays; after the
\* last group clearCart() empties the cart.
CheckoutInsertItems(ok) ==
    /\ checkout.pc = "items"
    /\ LET group == Head(checkout.groups)
           rows == orderItems(checkout.order, group.items)
           accepted ==
               /\ ok
               /\ \A k \in DOMAIN rows :
                      OrderItemsInsertAllowed(checkout.customer, rows[k])
           last == Len(checkout.groups) = 1
       IN IF accepted
          THEN /\ order_items' = order_items \o rows
               /\ checkout' =
                    [checkout EXCEPT
                        !.groups = Tail(@),
                        !.created = Append(@, checkout.order),
                        !.pc = IF last THEN "idle" ELSE "order",
                        !.result = IF last THEN "placed" ELSE "none"]
               /\ cart' = IF last THEN <<>> ELSE cart
          ELSE /\ order_items' = order_items
               /\ checkout' = [checkout EXCEPT !.pc = "idle",
                                               !.result = "failed"]
               /\ cart' = cart
    /\ storage' = Saved(storage, authUser, cart')
    /\ UNCHANGED <<products, orders, lastWrite, browse, rival>>
    /\ UNCHANGED <<roleVars, deliveryVars, gateVars, pageVars>>

\* ------------------------------------------------------------------------
\* Cart.handleCheckout in a second browser, by another customer
\* ------------------------------------------------------------------------

\* The items and the locals of handleCheckout of the second browser.
RivalIdle ==
    [customer |-> NULL, cart |-> <<>>, pc |-> "idle", result |-> "none",
     groups |-> <<>>, order |-> 0]

\* handleCheckout of the second browser up to its first await, with a
\* delivery address typed in.
RivalStartCheckout ==
    /\ rival.pc = "idle"
    /\ rival.customer # NULL
    /\ rival.cart # <<>>
    /\ StoreHasRoom
    /\ rival' = [rival EXCEPT !.pc = "order", !.result = "none",
                              !.groups = itemsByPharmacy(rival.cart),
                              !.order = 0]
    /\ UNCHANGED <<roleVars, deliveryVars, storeVars, shopVars, gateVars,
                   pageVars, storage>>

\* The insert of the order of the first group left.
RivalInsertOrder(ok) ==
    /\ rival.pc = "order"
    /\ StoreHasRoom
    /\ LET group == Head(rival.groups)
           row == [customer_id |-> rival.customer,
                   pharmacy_id |-> group.pharmacy_id,
                   total_amount |-> orderTotal(group.items),
                   status |-> "pending"]
           accepted == ok /\ OrdersInsertAllowed(rival.customer, row)
       IN IF accepted
          THEN /\ orders' = Append(orders, row)
               /\ rival' = [rival EXCEPT !.pc = "items",
                                         !.order = Len(orders) + 1]
          ELSE /\ orders' = orders
               /\ rival' = [rival EXCEPT !.pc = "idle", !.result = "failed"]
    /\ UNCHANGED <<products, order_items, lastWrite, storage>>
    /\ UNCHANGED <<roleVars, deliveryVars, shopVars, gateVars, pageVars>>

\* The insert of the items of the order just created; after the last group
\* clearCart() empties the cart of the second browser.
RivalInsertItems(ok) ==
    /\ rival.pc = "items"
    /\ LET group == Head(rival.groups)
           rows == orderItems(rival.order, group.items)
           accepted ==
               /\ ok
               /\ \A k \in DOMAIN rows :
                      OrderItemsInsertAllowed(rival.customer, rows[k])
           last == Len(rival.groups) = 1
       IN IF accepted
          THEN /\ order_items' = order_items \o rows
               /\ rival' =
                    [rival EXCEPT
                        !.groups = Tail(@),
                        !.pc = IF last THEN "idle" ELSE "order",
                        !.result = IF last THEN "placed" ELSE "none",
                        !.cart = IF last THEN <<>> ELSE @]
          ELSE /\ order_items' = order_items
               /\ rival' = [rival EXCEPT !.pc = "idle", !.result = "failed"]
    /\ UNCHANGED <<products, orders, lastWrite, storage>>
    /\ UNCHANGED <<roleVars, deliveryVars, shopVars, gateVars, pageVars>>

\* ------------------------------------------------------------------------
\* PharmacyOrders: the order page of a pharmacy, in any number of tabs
\* ------------------------------------------------------------------------

\* useState<Order[]>([]) of a page that has not loaded; user is the
\* principal of the tab once the page has loaded, rows the status of each
\* order of the list.
NoOrderPage == [user |-> NULL, rows |-> <<>>]

\* pharmacies?.[0] of select('id, verification_status').eq('user_id', u)
\* .order('created_at', { ascending: false }).limit(1), as the set of at
\* most one id.
NewestPharmacyOf(u) ==
    LET own == {ph \in DOMAIN pharmacies : pharmacies[ph].user_id = u}
    IN {ph \in own : \A q \in own : q <= ph}

\* SELECT on orders: the customer of the order, the owner of its pharmacy,
\* the administrator.
OrdersSelectAllowed(actor, row) ==
    \/ actor = row.customer_id
    \/ OwnsPharmacy(actor, row.pharmacy_id)
    \/ AdminManageOrdersPolicy(actor)

\* PharmacyOrders.fetchOrders in a tab of principal u: the orders of the
\* newest pharmacy of u.  Without a pharmacy, or when one of the selects
\* fails, it throws and the list stays as it was.
fetchOrders(s, u, ok) ==
    /\ u \in authUsers
    /\ orderPage[s].user \in {NULL, u}
    /\ LET listed == {o \in DOMAIN orders :
                        /\ orders[o].pharmacy_id \in NewestPharmacyOf(u)
                        /\ OrdersSelectAllowed(u, orders[o])}
       IN orderPage' =
            IF ok /\ NewestPharmacyOf(u) # {}
            THEN [orderPage EXCEPT
                    ![s] = [user |-> u,
                            rows |-> [o \in listed |-> orders[o].status]]]
            ELSE orderPage
    /\ UNCHANGED <<roleVars, deliveryVars, storeVars, shopVars, gateVars,
                   sessionVars>>

\* The statuses the action buttons of an order card set: Confirm Order and
\* Cancel on a card that shows pending, Mark as Delivered on one that shows
\* approved, none on the others.
CardButtons(shown) ==
    IF shown = "pending" THEN {"approved", "cancelled"}
    ELSE IF shown = "approved" THEN {"delivered"}
    ELSE {}

\* PharmacyOrders.updateOrderStatus from a button of a card of the list of
\* a tab: update({ status }).eq('id', o).  An update the policies refuse
\* changes no row and returns no error; the handler changes the card of its
\* list unless the call returned an error (ok = FALSE).
OrderCardUpdateStatus(s, o, status, ok) ==
    /\ o \in DOMAIN orderPage[s].rows
    /\ status \in CardButtons(orderPage[s].rows[o])
    /\ orders' = IF ok /\ OrdersUpdateAllowed(orderPage[s].user, orders[o])
                 THEN [orders EXCEPT ![o].status = status]
                 ELSE orders
    /\ orderPage' = IF ok
                    THEN [orderPage EXCEPT ![s].rows[o] = status]
                    ELSE orderPage
    /\ UNCHANGED <<products, order_items, lastWrite>>
    /\ UNCHANGED <<roleVars, deliveryVars, shopVars, gateVars, sessionVars>>

\* ------------------------------------------------------------------------
\* AdminPharmacies, usePharmacyVerification and DashboardLayout
\* ------------------------------------------------------------------------

VerificationStatuses == {"pending", "approved", "rejected"}

\* AdminPharmacies.updateVerificationStatus, from the Approve and Reject
\* buttons of a pending pharmacy; the administrator's update passes the
\* policy "Admins can manage all pharmacies".
AdminUpdateVerificationStatus(ph, status, ok) ==
    /\ ph \in DOMAIN pharmacies
    /\ pharmacies[ph].verification_status = "pending"
    /\ pharmacies' = IF ok /\ has_role(SeedAdmin, "admin")
                     THEN [pharmacies EXCEPT ![ph].verification_status = status]
                     ELSE pharmacies
    /\ UNCHANGED <<authUsers, metadata, profiles, user_roles, lastRoleInsert,
                   authUser, roleHook, reg>>
    /\ UNCHANGED outsideRoles

\* useState: verificationStatus null, loading true; the effect has not run.
VerificationInit ==
    [status |-> NULL, loading |-> TRUE, pc |-> "idle",
     effectUser |-> "unrun", effectRole |-> "unrun", fetchUser |-> NULL,
     outcome |-> "none", data |-> <<>>]

\* select('verification_status').eq('user_id', u).order('created_at',
\* { ascending: false }).limit(1): the status of the newest pharmacy of u,
\* as the list of at most one row.
NewestPharmacyStatus(u) ==
    LET own == {ph \in DOMAIN pharmacies : pharmacies[ph].user_id = u}
    IN IF own = {} THEN <<>>
       ELSE <<pharmacies[CHOOSE ph \in own : \A q \in own : q <= ph]
                 .verification_status>>

\* useEffect(..., [user, role]) with the role of the hook's own useUserRole:
\* without a user or with another role than pharmacy it sets the status null
\* and loading false; otherwise it sends the select.  loading is not set
\* back to true.
PvEffect ==
    /\ verification.pc \notin {"select", "selected"}
    /\ <<verification.effectUser, verification.effectRole>>
           # <<authUser, roleHook["verification"].role>>
    /\ verification' =
          IF authUser = NULL \/ roleHook["verification"].role # "pharmacy"
          THEN [verification EXCEPT
                   !.status = NULL, !.loading = FALSE, !.pc = "idle",
                   !.effectUser = authUser,
                   !.effectRole = roleHook["verification"].role]
          ELSE [verification EXCEPT
                   !.pc = "select", !.fetchUser = authUser,
                   !.effectUser = authUser,
                   !.effectRole = roleHook["verification"].role,
                   !.outcome = "none", !.data = <<>>]
    /\ UNCHANGED <<roleVars, deliveryVars, storeVars, shopVars, pageVars, sessionVars>>

\* The store answers the select: the row, an error result, or a throw.
PvSelectAnswer(o) ==
    /\ verification.pc = "select"
    /\ verification' =
          [verification EXCEPT
              !.pc = "selected", !.outcome = o,
              !.data = IF o = "ok"
                       THEN NewestPharmacyStatus(verification.fetchUser)
                       ELSE <<>>]
    /\ UNCHANGED <<roleVars, deliveryVars, storeVars, shopVars, pageVars, sessionVars>>

\* fetchPharmacyStatus continues after the await: the status of the row, or
\* null on an error, a throw or no row; loading false in finally.
PvSelectHandle ==
    /\ verification.pc = "selected"
    /\ verification' =
          [verification EXCEPT
              !.status = IF verification.outcome = "ok"
                            /\ verification.data # <<>>
                         THEN verification.data[1] ELSE NULL,
              !.loading = FALSE, !.pc = "done"]
    /\ UNCHANGED <<roleVars, deliveryVars, storeVars, shopVars, pageVars, sessionVars>>

\* usePharmacyVerification().isPending.
isPending == verification.status = "pending"

\* DashboardLayout: the spinner while a hook is loading, the redirect
\* without a user; otherwise the dashboard, with the modal open and the main
\* content blurred and without pointer events exactly when isPending.
LayoutLoading == roleHook["layout"].loading \/ verification.loading
DashboardShown == ~LayoutLoading /\ authUser # NULL
ModalOpen == DashboardShown /\ isPending
MainInteractive == DashboardShown /\ ~isPending

\* ------------------------------------------------------------------------
\* Initial state
\* ------------------------------------------------------------------------

\* The seeded administrator signed up through the trigger (profile and
\* customer row) and was given the admin row; the legacy account has neither
\* a profile nor a role row, and any role, or none, in its metadata.
RolesInit ==
    /\ authUsers = {SeedAdmin, LegacyUser}
    /\ \E m \in Roles \cup {NULL} :
          metadata = [u \in Users |-> IF u = LegacyUser THEN m ELSE NULL]
    /\ profiles = [u \in Users |-> IF u = SeedAdmin THEN 1 ELSE 0]
    /\ user_roles = [p \in Users \X Roles |->
                       IF p[1] = SeedAdmin /\ p[2] \in {"admin", "customer"}
                       THEN 1 ELSE 0]
    /\ lastRoleInsert = [duplicate |-> FALSE, accepted |-> TRUE]
    /\ pharmacies = <<>>
    /\ authUser = NULL
    /\ roleHook = [h \in HookIds |-> HookInit]
    /\ reg = [pc |-> "idle", user |-> NULL]

\* The role registry once the three principals are set up: u2 registered
\* the first pharmacy, owner2 the second, and the administrator decided on
\* both; u3 got its customer row from the metadata fallback.
Registered(owner2, s1, s2) ==
    /\ authUsers = Users
    /\ metadata = [u \in Users |->
                     IF u = SeedAdmin THEN NULL
                     ELSE IF u = LegacyUser /\ owner2 # LegacyUser
                     THEN "customer" ELSE "pharmacy"]
    /\ profiles = [u \in Users |-> IF u = LegacyUser THEN 0 ELSE 1]
    /\ user_roles = [p \in Users \X Roles |->
                       IF \/ p[2] = "customer"
                          \/ p[1] = SeedAdmin /\ p[2] = "admin"
                          \/ p[1] \in {"u2", owner2} /\ p[2] = "pharmacy"
                       THEN 1 ELSE 0]
    /\ lastRoleInsert = [duplicate |-> owner2 = "u2",
                         accepted |-> owner2 # "u2"]
    /\ pharmacies = <<[user_id |-> "u2", verification_status |-> s1],
                      [user_id |-> owner2, verification_status |-> s2]>>
    /\ authUser = NULL
    /\ roleHook = [h \in HookIds |-> HookInit]
    /\ reg = [pc |-> "idle", user |-> NULL]

\* Every delivery as it was created, the dashboard not loaded.
DeliveryIdle ==
    /\ deliveries = [d \in DeliveryIds |-> NewDelivery]
    /\ dash = [s \in Tabs |-> NoDash]

StoreEmpty ==
    /\ products = <<>>
    /\ orders = <<>>
    /\ order_items = <<>>
    /\ lastWrite = NoWrite

ShopIdle ==
    /\ browse = NoBrowse
    /\ cart = <<>>
    /\ checkout = CheckoutIdle

GateIdle == verification = VerificationInit

\* No page of PharmacyOrders is open.
PagesIdle == orderPage = [s \in Tabs |-> NoOrderPage]

\* No second browser is open, and localStorage holds no cart.
SessionsIdle == rival = RivalIdle /\ storage = <<>>

Init == RolesInit /\ DeliveryIdle /\ StoreEmpty /\ ShopIdle /\ GateIdle /\ PagesIdle /\ SessionsIdle

\* One order of u3 at the first pharmacy: one unit of p1.
OneOrder ==
    /\ orders = <<[customer_id |-> "u3", pharmacy_id |-> 1,
                   total_amount |-> PriceOf["p1"], status |-> "pending"]>>
    /\ order_items = <<[order_id |-> 1, product_id |-> "p1", quantity |-> 1,
                        unit_price |-> PriceOf["p1"],
                        total_price |-> PriceOf["p1"]]>>

\* One product of each pharmacy, the second pharmacy owned by u2 or by u3,
\* and the order of u3.
InitPolicy ==
    /\ \E owner2 \in {"u2", "u3"} : Registered(owner2, "approved", "pending")
    /\ products = [p \in {"p1", "p2"} |->
                      [pharmacy_id |-> IF p = "p1" THEN 1 ELSE 2,
                       price |-> PriceOf[p], is_active |-> TRUE,
                       stock_quantity |-> 1]]
    /\ OneOrder
    /\ lastWrite = NoWrite
    /\ DeliveryIdle /\ ShopIdle /\ GateIdle /\ PagesIdle /\ SessionsIdle

\* The customer of the shop.
Shoppers == {LegacyUser}

\* u2 owns both pharmacies, both approved; p1 and p2 are products of the
\* first, p3 of the second; no order yet.
InitCheckout ==
    /\ Registered("u2", "approved", "approved")
    /\ products = [p \in ProductIds |->
                      [pharmacy_id |-> IF p = "p3" THEN 2 ELSE 1,
                       price |-> PriceOf[p], is_active |-> TRUE,
                       stock_quantity |-> 1]]
    /\ orders = <<>>
    /\ order_items = <<>>
    /\ lastWrite = NoWrite
    /\ DeliveryIdle /\ ShopIdle /\ GateIdle /\ PagesIdle /\ SessionsIdle

\* Any visibility, stock and verification status the catalogue can have:
\* p1 is a product of the first pharmacy, p2 of the second, which u2 or u3
\* owns.
InitCatalog ==
    /\ \E owner2 \in {"u2", "u3"}, s1 \in VerificationStatuses :
          Registered(owner2, s1, "approved")
    /\ \E a1, a2 \in BOOLEAN, q1, q2 \in {0, 1} :
          products = [p \in {"p1", "p2"} |->
                        [pharmacy_id |-> IF p = "p1" THEN 1 ELSE 2,
                         price |-> PriceOf[p],
                         is_active |-> IF p = "p1" THEN a1 ELSE a2,
                         stock_quantity |-> IF p = "p1" THEN q1 ELSE q2]]
    /\ orders = <<>>
    /\ order_items = <<>>
    /\ lastWrite = NoWrite
    /\ DeliveryIdle /\ ShopIdle /\ GateIdle /\ PagesIdle /\ SessionsIdle

\* Two pharmacies as their owners registered them, the second by u2 or by
\* u3.
InitGate ==
    /\ \E owner2 \in {"u2", "u3"} : Registered(owner2, "pending", "pending")
    /\ DeliveryIdle /\ StoreEmpty /\ ShopIdle /\ GateIdle /\ PagesIdle /\ SessionsIdle

\* Two deliveries as they were created; u2 owns both pharmacies, both
\* approved.  The handlers of the delivery pages write no column of the
\* orders the deliveries belong to, and the orders are left out.
InitDelivery ==
    /\ Registered("u2", "approved", "approved")
    /\ DeliveryIdle /\ StoreEmpty /\ ShopIdle /\ GateIdle /\ PagesIdle /\ SessionsIdle

vars == <<roleVars, deliveryVars, storeVars, shopVars, gateVars, pageVars, sessionVars>>

\* ------------------------------------------------------------------------
\* The role registry and role resolution
\* ------------------------------------------------------------------------

NextRoles ==
    \/ \E u \in Users, m \in SignUpRoles : SignUp(u, m)
    \/ \E u \in Users \ {SeedAdmin}, r \in GrantedRoles : AdminInsertRole(u, r)
    \/ \E u \in Users : SignIn(u)
    \/ UrEffect("layout")
    \/ \E o \in Outcomes : UrSelectAnswer("layout", o)
    \/ UrSelectHandle("layout")
    \/ \E o \in Outcomes : UrInsertAnswer("layout", o)
    \/ UrInsertHandle("layout")
    \/ \E ok \in BOOLEAN : RegInsertPharmacy(ok)
    \/ \E ok \in BOOLEAN : RegInsertRole(ok)

SpecRoles == Init /\ [][NextRoles]_vars

\* ------------------------------------------------------------------------
\* The delivery records
\* ------------------------------------------------------------------------

NextDelivery ==
    \/ \E d \in DeliveryIds, status \in DeliveryStatuses, t \in Timestamps,
          ok \in BOOLEAN : AdminUpdateDeliveryStatus(d, status, t, ok)
    \/ \E d \in DeliveryIds, ok \in BOOLEAN : AdminConfirmDelivery(d, ok)
    \/ \E d \in DeliveryIds, a \in Agents, ok \in BOOLEAN :
          AdminAssignDeliveryAgent(d, a, ok)
    \/ \E d \in DeliveryIds, ok \in BOOLEAN : PharmacyConfirmDelivery(d, ok)
    \/ \E u \in Agents, ok \in BOOLEAN : DashFetchDeliveries("tab1", u, ok)
    \/ \E d \in DeliveryIds, t \in Timestamps, ok \in BOOLEAN :
          AgentUpdateDeliveryStatus("tab1", d, t, ok)
    \/ \E d \in DeliveryIds, ok \in BOOLEAN :
          AgentConfirmDelivery("tab1", d, ok)

SpecDelivery == InitDelivery /\ [][NextDelivery]_vars

\* ------------------------------------------------------------------------
\* Role resolution: C7, C8, C9
\* ------------------------------------------------------------------------

Rank(r) ==
    CASE r = "admin" -> 4
      [] r = "pharmacy" -> 3
      [] r = "delivery_agent" -> 2
      [] r = "customer" -> 1

\* The role of a non-empty set that no other role of the set outranks.
HighestRole(roles) == CHOOSE r \in roles : \A q \in roles : Rank(r) >= Rank(q)

\* A resolution that ran to its end on a successful select.
ResolvedOk(h) == roleHook[h].pc = "done" /\ roleHook[h].selectOutcome = "ok"

FellBackToMetadata(h) ==
    /\ ResolvedOk(h)
    /\ roleHook[h].data = {}
    /\ metadata[roleHook[h].fetchUser] # NULL

\* The insert of the resolution was answered by the store itself: the row
\* was stored, or the store refused it.
StoreAnswered(h) ==
    roleHook[h].insertOutcome = "ok" \/ roleHook[h].insertDenied

\* C8 (as claimed): once a resolution that found no row has ended, the role
\* of the metadata is a row of user_roles, whichever of the four roles it
\* is.  Stated for the resolutions whose insert the store answered, so that
\* a failure of the network is not what refutes it.
C8_MetadataRoleStored ==
    \A h \in HookIds :
        (FellBackToMetadata(h) /\ StoreAnswered(h)) =>
            has_role(roleHook[h].fetchUser, metadata[roleHook[h].fetchUser])

\* C9: a resolution whose select returned an error or threw ends with role
\* customer and loading false, and has sent no insert.
C9_FailedQueryIsCustomer ==
    \A h \in HookIds :
        (roleHook[h].pc = "done"
           /\ roleHook[h].selectOutcome \in {"error", "thrown"}) =>
            /\ roleHook[h].role = "customer"
            /\ roleHook[h].loading = FALSE
            /\ roleHook[h].insertOutcome = "none"
            /\ ~roleHook[h].wrote

\* The select of a principal holding the admin role failed and the hook
\* shows customer.
C9_Witness ==
    /\ roleHook["layout"].pc = "done"
    /\ roleHook["layout"].selectOutcome = "error"
    /\ has_role(roleHook["layout"].fetchUser, "admin")
    /\ roleHook["layout"].role = "customer"

\* ------------------------------------------------------------------------
\* The role registry: C10
\* ------------------------------------------------------------------------

\* C10: user_roles never holds two rows for one (user_id, role), and the
\* store never accepts the insert of a pair that already exists.
C10_RolePairsUnique ==
    /\ \A p \in Users \X Roles : user_roles[p] <= 1
    /\ lastRoleInsert.duplicate => ~lastRoleInsert.accepted

\* A principal registered a second pharmacy: the second insert of its
\* pharmacy role was rejected and the table still holds the one row.
C10_Witness ==
    /\ lastRoleInsert.duplicate
    /\ ~lastRoleInsert.accepted
    /\ \E u \in Users :
          /\ user_roles[<<u, "pharmacy">>] = 1
          /\ Len(pharmacies) = 2
          /\ pharmacies[1].user_id = u /\ pharmacies[2].user_id = u
          /\ reg.pc = "idle"

\* ------------------------------------------------------------------------
\* Writes to products and orders under the row-level policies
\* ------------------------------------------------------------------------

NextPolicy ==
    \/ \E u \in Users : SignIn(u)
    \/ \E p \in ProductIds, ph \in DOMAIN pharmacies, active \in BOOLEAN,
          ok \in BOOLEAN : InsertProduct(p, ph, active, ok)
    \/ \E p \in ProductIds, ph \in DOMAIN pharmacies, active \in BOOLEAN,
          ok \in BOOLEAN : UpdateProduct(p, ph, active, ok)
    \/ \E p \in ProductIds, ok \in BOOLEAN : DeleteProduct(p, ok)
    \/ \E o \in DOMAIN orders, status \in CardStatuses, ok \in BOOLEAN :
          UpdateOrderStatus(o, status, ok)

SpecPolicy == InitPolicy /\ [][NextPolicy]_vars

\* ------------------------------------------------------------------------
\* The cart and the checkout
\* ------------------------------------------------------------------------

NextCheckout ==
    \/ \E u \in Shoppers : SignIn(u)
    \/ \E ok \in BOOLEAN : BrowseFetchProducts(ok)
    \/ \E p \in ProductIds : AddToCart(p)
    \/ \E p \in ProductIds : RemoveFromCart(p)
    \/ \E p \in ProductIds, q \in 0..MaxQuantity : UpdateQuantity(p, q)
    \/ \E address \in BOOLEAN : StartCheckout(address)
    \/ \E ok \in BOOLEAN : CheckoutInsertOrder(ok)
    \/ \E ok \in BOOLEAN : CheckoutInsertItems(ok)

SpecCheckout == InitCheckout /\ [][NextCheckout]_vars

\* ------------------------------------------------------------------------
\* The catalogue as Browse reads it
\* ------------------------------------------------------------------------

NextCatalog ==
    \/ \E u \in Users : SignIn(u)
    \/ \E ok \in BOOLEAN : BrowseFetchProducts(ok)

SpecCatalog == InitCatalog /\ [][NextCatalog]_vars

\* ------------------------------------------------------------------------
\* The verification gate of the dashboard
\* ------------------------------------------------------------------------

NextGate ==
    \/ \E u \in Users : SignIn(u)
    \/ \E h \in HookIds : UrEffect(h)
    \/ \E h \in HookIds, o \in Outcomes : UrSelectAnswer(h, o)
    \/ \E h \in HookIds : UrSelectHandle(h)
    \/ PvEffect
    \/ \E o \in Outcomes : PvSelectAnswer(o)
    \/ PvSelectHandle
    \/ \E ph \in DOMAIN pharmacies, status \in {"approved", "rejected"},
          ok \in BOOLEAN : AdminUpdateVerificationStatus(ph, status, ok)

SpecGate == InitGate /\ [][NextGate]_vars

\* ------------------------------------------------------------------------
\* The delivered timestamp: C1
\* ------------------------------------------------------------------------

\* C1 (as claimed): every delivery has delivered_at set exactly when its
\* status_delivery is delivered, whatever status updates the administrator
\* and the agent made.
C1_DeliveredAtIffDelivered ==
    \A d \in DeliveryIds :
        (deliveries[d].delivered_at # NULL)
            <=> (deliveries[d].status_delivery = "delivered")

\* ------------------------------------------------------------------------
\* Order totals and the split by pharmacy: C2, C3
\* ------------------------------------------------------------------------

\* The rows of order_items of an order.
ItemsOfOrder(o) == SelectSeq(order_items, LAMBDA i : i.order_id = o)

RECURSIVE SumOfItems(_)
SumOfItems(rows) ==
    IF rows = <<>> THEN 0
    ELSE SumOfItems(Tail(rows)) + Head(rows).unit_price * Head(rows).quantity

\* C2 (as claimed): when no checkout is running, the total_amount of every
\* stored order is the sum of unit_price x quantity over the order_items
\* stored for it, also after a run whose insert of the items failed.
C2_TotalIsSumOfItems ==
    checkout.pc = "idle" =>
        \A o \in DOMAIN orders :
            orders[o].total_amount = SumOfItems(ItemsOfOrder(o))

\* The pharmacies of the items of a cart, and the items of one of them.
PharmaciesIn(items) == {items[k].pharmacy_id : k \in DOMAIN items}
LinesOf(items, ph) ==
    {<<items[k].product_id, items[k].quantity, items[k].price>> :
        k \in {j \in DOMAIN items : items[j].pharmacy_id = ph}}

\* C3: after a successful checkout the run created one order for each
\* pharmacy of its cart and no other, and the order_items of each of these
\* orders are the cart items of the pharmacy of the order, each once.
C3_OneOrderPerPharmacy ==
    checkout.result = "placed" =>
        LET items == checkout.items
            made == checkout.created
        IN /\ Len(made) = Cardinality(PharmaciesIn(items))
           /\ \A ph \in PharmaciesIn(items) :
                  Cardinality({k \in DOMAIN made :
                                 orders[made[k]].pharmacy_id = ph}) = 1
           /\ \A k \in DOMAIN made :
                  LET rows == ItemsOfOrder(made[k])
                      ph == orders[made[k]].pharmacy_id
                  IN /\ Len(rows) = Cardinality(LinesOf(items, ph))
                     /\ {<<rows[j].product_id, rows[j].quantity,
                           rows[j].unit_price>> : j \in DOMAIN rows}
                            = LinesOf(items, ph)

\* A cart of p1, p3, p2 (first, second, first pharmacy) was placed as two
\* orders.
C3_Witness ==
    /\ checkout.result = "placed"
    /\ Len(checkout.items) = 3
    /\ checkout.items[1].pharmacy_id = 1
    /\ checkout.items[2].pharmacy_id = 2
    /\ checkout.items[3].pharmacy_id = 1
    /\ Len(checkout.created) = 2
    /\ Len(order_items) = 3

\* ------------------------------------------------------------------------
\* Ownership isolation: C4
\* ------------------------------------------------------------------------

\* C4: a write to products (insert, update, delete) or an update of orders
\* by a principal without the admin role, on a row whose pharmacy belongs to
\* someone else, is not accepted and changes nothing; so every accepted
\* write of such a principal is on a row of a pharmacy it owns.
C4_OnlyOwnersWrite ==
    (lastWrite.op # "none" /\ ~lastWrite.admin
        /\ lastWrite.owner # lastWrite.actor)
        => (~lastWrite.accepted /\ ~lastWrite.changed)

\* u3 added p3 to its own pharmacy, and its delete of a product of the
\* pharmacy of u2 was refused: the product is still there.
C4_Witness ==
    /\ lastWrite.op = "delete"
    /\ lastWrite.actor = "u3" /\ lastWrite.owner = "u2"
    /\ ~lastWrite.accepted
    /\ "p1" \in DOMAIN products
    /\ "p3" \in DOMAIN products
    /\ pharmacies[products["p3"].pharmacy_id].user_id = "u3"

\* ------------------------------------------------------------------------
\* Catalogue visibility: C5
\* ------------------------------------------------------------------------

\* C5: what Browse loaded for a principal holding the customer role are the
\* active products, all of them and no other, whatever their stock and the
\* verification status of their pharmacy.
C5_ReadableIffActive ==
    (browse.loaded /\ has_role(browse.user, "customer")) =>
        \A p \in ProductIds :
            (p \in DOMAIN browse.rows)
                <=> (p \in DOMAIN products /\ products[p].is_active)

\* u3, who owns no pharmacy, loaded the active product p1 of a pending
\* pharmacy with no stock, and not the inactive p2 of an approved one.
C5_Witness ==
    /\ browse.loaded /\ browse.user = "u3"
    /\ has_role("u3", "customer") /\ ~has_role("u3", "pharmacy")
    /\ pharmacies[1].verification_status = "pending"
    /\ products["p1"].stock_quantity = 0
    /\ "p1" \in DOMAIN browse.rows
    /\ pharmacies[2].verification_status = "approved"
    /\ ~products["p2"].is_active
    /\ "p2" \notin DOMAIN browse.rows

\* ------------------------------------------------------------------------
\* The verification gate: C6
\* ------------------------------------------------------------------------

\* usePharmacyVerification has the answer of the store for the signed-in
\* principal, and the answer is the status the store holds now.
GateSettled ==
    /\ verification.pc = "done"
    /\ verification.outcome = "ok"
    /\ verification.fetchUser = authUser
    /\ verification.data = NewestPharmacyStatus(authUser)
    /\ verification.data # <<>>

\* C6 (as claimed): when the dashboard is shown to a principal whose role
\* is pharmacy and whose pharmacy is not approved (pending or rejected), the
\* modal is open and the main content is not interactive.  Stated for a
\* settled gate, so that a failed or outdated fetch is not what refutes it.
C6_UnapprovedPharmacyBlocked ==
    (/\ DashboardShown
     /\ roleHook["layout"].role = "pharmacy"
     /\ GateSettled
     /\ verification.data[1] # "approved")
        => (ModalOpen /\ ~MainInteractive)

\* ------------------------------------------------------------------------
\* The columns a delivery update writes: C11
\* ------------------------------------------------------------------------

\* C11: a step that changes status_delivery or delivered_at of a delivery
\* leaves confirmed_by_admin, confirmed_by_pharmacy and delivery_agent_id
\* of the row as they were, and changes delivered_at only when the new
\* status is delivered; a step that changes a confirmation flag leaves
\* status_delivery, delivered_at and the other flag as they were.
C11_UpdatesWriteOwnColumns ==
    [][\A d \in DeliveryIds :
          LET old == deliveries[d]
              new == deliveries'[d]
          IN /\ (\/ new.status_delivery # old.status_delivery
                  \/ new.delivered_at # old.delivered_at)
                    => /\ new.confirmed_by_admin = old.confirmed_by_admin
                       /\ new.confirmed_by_pharmacy = old.confirmed_by_pharmacy
                       /\ new.delivery_agent_id = old.delivery_agent_id
                       /\ (new.delivered_at # old.delivered_at
                              => new.status_delivery = "delivered")
             /\ (new.confirmed_by_admin # old.confirmed_by_admin)
                    => /\ new.status_delivery = old.status_delivery
                       /\ new.delivered_at = old.delivered_at
                       /\ new.confirmed_by_pharmacy = old.confirmed_by_pharmacy
             /\ (new.confirmed_by_pharmacy # old.confirmed_by_pharmacy)
                    => /\ new.status_delivery = old.status_delivery
                       /\ new.delivered_at = old.delivered_at
                       /\ new.confirmed_by_admin = old.confirmed_by_admin
      ]_vars

\* The run of the claim has happened: the agent loaded the pending or
\* in-transit card before the handover was confirmed, took it to delivered
\* from the dashboard, and the pharmacy confirmed in between (the card of
\* the agent still shows the flag unset).  The row is delivered, has its
\* timestamp, and confirmed_by_admin is still the initial FALSE.
C11_Witness ==
    \E d \in DOMAIN dash["tab1"].rows :
        /\ dash["tab1"].rows[d].status_delivery = "delivered"
        /\ ~dash["tab1"].rows[d].confirmed_by_pharmacy
        /\ deliveries[d] = [status_delivery |-> "delivered",
                            delivered_at |-> "t1",
                            confirmed_by_admin |-> FALSE,
                            confirmed_by_pharmacy |-> TRUE,
                            delivery_agent_id |-> dash["tab1"].user]

\* ------------------------------------------------------------------------
\* The rows a checkout stores: C12
\* ------------------------------------------------------------------------

\* The items of the cart a run was started with that belong to a pharmacy,
\* as (product, quantity, price, quantity x price).
PricedLinesOf(items, ph) ==
    {<<items[k].product_id, items[k].quantity, items[k].price,
       items[k].quantity * items[k].price>> :
        k \in {j \in DOMAIN items : items[j].pharmacy_id = ph}}

\* C12: every stored order has status pending; every stored order item has
\* total_price = quantity x unit_price; and the items stored for an order
\* of the latest run carry the quantity and the price of the cart items of
\* its pharmacy as quantity and unit_price.
C12_StoredAsPendingWithLineTotals ==
    /\ \A o \in DOMAIN orders : orders[o].status = "pending"
    /\ \A k \in DOMAIN order_items :
           order_items[k].total_price
               = order_items[k].quantity * order_items[k].unit_price
    /\ \A k \in DOMAIN checkout.created :
           LET o == checkout.created[k]
               rows == ItemsOfOrder(o)
           IN {<<rows[j].product_id, rows[j].quantity, rows[j].unit_price,
                 rows[j].total_price>> : j \in DOMAIN rows}
                  = PricedLinesOf(checkout.items, orders[o].pharmacy_id)

\* The example of the claim at the prices of the model (5 and 3 for 500 and
\* 300): 2 units of p1 and 1 unit of p2, both of the first pharmacy, were
\* placed as one order of 13 with items of 10 and 3.
C12_Witness ==
    /\ checkout.result = "placed"
    /\ checkout.created = <<1>>
    /\ orders[1].total_amount = 13
    /\ orders[1].status = "pending"
    /\ {<<order_items[k].product_id, order_items[k].quantity,
          order_items[k].unit_price, order_items[k].total_price>> :
            k \in DOMAIN order_items}
           = {<<"p1", 2, 5, 10>>, <<"p2", 1, 3, 3>>}

\* ------------------------------------------------------------------------
\* Products of a pharmacy that is not verified: C13
\* ------------------------------------------------------------------------

\* The catalog page of a principal shows the card of a product: the query
\* of Browse returns the row, and the page renders, which it does only when
\* every returned row came with its pharmacy (product.pharmacy.name).
CatalogShows(c, p) ==
    /\ p \in DOMAIN BrowseRows(c)
    /\ \A q \in DOMAIN BrowseRows(c) : BrowseRows(c)[q].pharmacy # {}

\* C13 (as claimed): when a principal that is not an administrator has
\* inserted a product into a pharmacy it owns, the insert was accepted on
\* ownership alone, and every active product of a pending pharmacy of that
\* principal is visible in the catalog of every principal that holds the
\* customer role.
C13_PendingPharmacyProductsVisible ==
    (/\ lastWrite.op = "insert"
     /\ ~lastWrite.admin
     /\ lastWrite.actor = lastWrite.owner
     /\ lastWrite.changed)
        => /\ lastWrite.accepted
           /\ \A p \in DOMAIN products :
                  (/\ products[p].is_active
                   /\ pharmacies[products[p].pharmacy_id].user_id
                          = lastWrite.owner
                   /\ pharmacies[products[p].pharmacy_id]
                          .verification_status = "pending")
                      => \A c \in authUsers :
                             has_role(c, "customer") => CatalogShows(c, p)

\* ------------------------------------------------------------------------
\* The rows of a new principal: C14
\* ------------------------------------------------------------------------

\* C14: the step that creates a principal ends with exactly one profile
\* row and exactly one role row (principal, customer) for it.
C14_CreationWritesProfileAndRole ==
    [][\A u \in Users :
          (u \notin authUsers /\ u \in authUsers')
              => /\ profiles'[u] = 1
                 /\ user_roles'[<<u, "customer">>] = 1
      ]_vars

\* u2 signed up as a pharmacy and has its profile and its customer row, and
\* no other role row yet.
C14_Witness ==
    /\ "u2" \in authUsers
    /\ metadata["u2"] = "pharmacy"
    /\ profiles["u2"] = 1
    /\ user_roles[<<"u2", "customer">>] = 1
    /\ \A r \in Roles \ {"customer"} : user_roles[<<"u2", r>>] = 0

\* ------------------------------------------------------------------------
\* The order pages of the pharmacies: C15
\* ------------------------------------------------------------------------

\* u2 owns the first pharmacy and u3 the second, both approved.  The first
\* has two pending orders of one unit of p1, the second one of p2.
OrderOf(customer, ph, p) ==
    [customer_id |-> customer, pharmacy_id |-> ph,
     total_amount |-> PriceOf[p], status |-> "pending"]
ItemOf(o, p) ==
    [order_id |-> o, product_id |-> p, quantity |-> 1,
     unit_price |-> PriceOf[p], total_price |-> PriceOf[p]]

InitOrderPages ==
    /\ Registered("u3", "approved", "approved")
    /\ products = [p \in {"p1", "p2"} |->
                      [pharmacy_id |-> IF p = "p1" THEN 1 ELSE 2,
                       price |-> PriceOf[p], is_active |-> TRUE,
                       stock_quantity |-> 1]]
    /\ orders = <<OrderOf("u3", 1, "p1"), OrderOf("u2", 2, "p2"),
                  OrderOf("u1", 1, "p1")>>
    /\ order_items = <<ItemOf(1, "p1"), ItemOf(2, "p2"), ItemOf(3, "p1")>>
    /\ lastWrite = NoWrite
    /\ DeliveryIdle /\ ShopIdle /\ GateIdle /\ PagesIdle /\ SessionsIdle

NextOrderPages ==
    \/ \E s \in Tabs, u \in Users \ {SeedAdmin}, ok \in BOOLEAN :
          fetchOrders(s, u, ok)
    \/ \E s \in Tabs, o \in DOMAIN orders, status \in CardStatuses,
          ok \in BOOLEAN : OrderCardUpdateStatus(s, o, status, ok)

SpecOrderPages == InitOrderPages /\ [][NextOrderPages]_vars

\* C15 (as claimed): under the actions of the order pages of the owning
\* pharmacy, the stored status of an order changes only from pending to
\* approved, from pending to cancelled and from approved to delivered; so
\* an order that is delivered or cancelled keeps its status.
C15_OrderStatusFollowsLifecycle ==
    [][\A o \in DOMAIN orders :
          orders'[o].status # orders[o].status
              => <<orders[o].status, orders'[o].status>>
                     \in {<<"pending", "approved">>,
                          <<"pending", "cancelled">>,
                          <<"approved", "delivered">>}
      ]_vars

\* ------------------------------------------------------------------------
\* The dashboards of the delivery agents: C16, C17
\* ------------------------------------------------------------------------

\* The administrator assigns and reassigns the first delivery (the second
\* stays without an agent and reaches no dashboard); the agents work from
\* their dashboards, each in any number of tabs.
NextDashboards ==
    \/ \E a \in Agents, ok \in BOOLEAN :
          AdminAssignDeliveryAgent("d1", a, ok)
    \/ \E s \in Tabs, u \in Agents, ok \in BOOLEAN :
          DashFetchDeliveries(s, u, ok)
    \/ \E s \in Tabs, d \in DeliveryIds, t \in Timestamps, ok \in BOOLEAN :
          AgentUpdateDeliveryStatus(s, d, t, ok)
    \/ \E s \in Tabs, d \in DeliveryIds, ok \in BOOLEAN :
          AgentConfirmDelivery(s, d, ok)

SpecDashboards == InitDelivery /\ [][NextDashboards]_vars

\* C16 (as claimed): under the actions of the dashboards of the assigned
\* agent, the stored status_delivery of a delivery changes only from
\* pending to in-transit and from in-transit to delivered.
C16_DeliveryStatusAdvancesOnly ==
    [][\A d \in DeliveryIds :
          deliveries'[d].status_delivery # deliveries[d].status_delivery
              => <<deliveries[d].status_delivery,
                   deliveries'[d].status_delivery>>
                     \in {<<"pending", "in-transit">>,
                          <<"in-transit", "delivered">>}
      ]_vars

AgentStep ==
    \/ \E s \in Tabs, d \in DeliveryIds, t \in Timestamps, ok \in BOOLEAN :
          AgentUpdateDeliveryStatus(s, d, t, ok)
    \/ \E s \in Tabs, d \in DeliveryIds, ok \in BOOLEAN :
          AgentConfirmDelivery(s, d, ok)
PharmacyStep ==
    \E d \in DeliveryIds, ok \in BOOLEAN : PharmacyConfirmDelivery(d, ok)

\* C18 (as claimed): a step of the dashboard of the assigned agent changes
\* no confirmation flag and no delivery_agent_id of a delivery, and a step
\* of the pharmacy changes nothing but confirmed_by_pharmacy.
C18_AgentWritesStatusOnly ==
    [][/\ AgentStep =>
            \A d \in DeliveryIds :
                /\ deliveries'[d].confirmed_by_admin
                       = deliveries[d].confirmed_by_admin
                /\ deliveries'[d].confirmed_by_pharmacy
                       = deliveries[d].confirmed_by_pharmacy
                /\ deliveries'[d].delivery_agent_id
                       = deliveries[d].delivery_agent_id
       /\ PharmacyStep =>
            \A d \in DeliveryIds :
                deliveries'[d]
                    = [deliveries[d] EXCEPT
                          !.confirmed_by_pharmacy
                              = deliveries'[d].confirmed_by_pharmacy]
      ]_vars

\* C19: a confirmation flag that is true stays true in every step of the
\* administrator, the pharmacy and the agents.
C19_ConfirmationsStay ==
    [][\A d \in DeliveryIds :
          /\ deliveries[d].confirmed_by_admin
                => deliveries'[d].confirmed_by_admin
          /\ deliveries[d].confirmed_by_pharmacy
                => deliveries'[d].confirmed_by_pharmacy
      ]_vars

\* The agent loaded a pending delivery that both sides had confirmed; the
\* delivery was then taken to delivered behind the back of this card (by
\* the administrator), and both flags are still set.
C19_Witness ==
    \E d \in DOMAIN dash["tab1"].rows :
        /\ dash["tab1"].rows[d].confirmed_by_admin
        /\ dash["tab1"].rows[d].confirmed_by_pharmacy
        /\ dash["tab1"].rows[d].status_delivery = "pending"
        /\ deliveries[d].status_delivery = "delivered"
        /\ deliveries[d].confirmed_by_admin
        /\ deliveries[d].confirmed_by_pharmacy

\* ------------------------------------------------------------------------
\* Order header and items: C20
\* ------------------------------------------------------------------------

\* C20 (as claimed): every stored order has order items (a cart group has
\* at least one item, so an order that has none is an order without the
\* items of its group).  Stated for the states in which no insert of items
\* is outstanding, so that the time between the two requests of a run is
\* not what refutes it.
C20_NoOrderWithoutItems ==
    checkout.pc # "items" =>
        \A o \in DOMAIN orders : ItemsOfOrder(o) # <<>>

\* ------------------------------------------------------------------------
\* A checkout that fails part of the way: C21
\* ------------------------------------------------------------------------

\* C21: when a checkout has ended in its catch block, the cart is the cart
\* the run started with; the orders of the groups before the failing one
\* are stored with their items; the failing group and the groups after it
\* are the groups left, and the run inserted no order after the failing
\* group.
C21_FailedCheckoutKeepsCartAndOrders ==
    (checkout.pc = "idle" /\ checkout.result = "failed") =>
        LET all == itemsByPharmacy(checkout.items)
            made == checkout.created
            done == Len(made)
        IN /\ cart = checkout.items
           /\ done < Len(all)
           /\ checkout.groups = SubSeq(all, done + 1, Len(all))
           /\ \A k \in 1..done :
                  /\ made[k] \in DOMAIN orders
                  /\ orders[made[k]].pharmacy_id = all[k].pharmacy_id
                  /\ Len(ItemsOfOrder(made[k])) = Len(all[k].items)
           /\ checkout.order = 0 => done = 0
           /\ checkout.order # 0
                 => /\ Len(orders) = checkout.order
                    /\ done # 0 => checkout.order \in {made[done],
                                                       made[done] + 1}

\* The checkout of a cart of two pharmacies failed at the second group and
\* was repeated: the order of the first group is stored twice, and the cart
\* is still the one of the first run.
C21_Witness ==
    /\ Len(itemsByPharmacy(checkout.items)) = 2
    /\ cart = checkout.items
    /\ checkout.created = <<2>>
    /\ Len(orders) = 2
    /\ orders[1] = orders[2]
    /\ Len(ItemsOfOrder(1)) = Len(ItemsOfOrder(2))
    /\ ItemsOfOrder(1) # <<>>


\* ------------------------------------------------------------------------
\* Two customers at the checkout
\* ------------------------------------------------------------------------

\* The shop of the checkout, every product with one unit in stock, and a
\* second browser in which u2 holds one line of p1 in the cart.
InitMarket ==
    /\ Registered("u2", "approved", "approved")
    /\ products = [p \in ProductIds |->
                      [pharmacy_id |-> IF p = "p3" THEN 2 ELSE 1,
                       price |-> PriceOf[p], is_active |-> TRUE,
                       stock_quantity |-> 1]]
    /\ orders = <<>>
    /\ order_items = <<>>
    /\ lastWrite = NoWrite
    /\ \E q \in 1..MaxQuantity :
          rival = [RivalIdle EXCEPT
                      !.customer = "u2",
                      !.cart = <<[product_id |-> "p1", price |-> PriceOf["p1"],
                                  quantity |-> q, pharmacy_id |-> 1]>>]
    /\ storage = <<>>
    /\ DeliveryIdle /\ ShopIdle /\ GateIdle /\ PagesIdle

NextMarket ==
    \/ NextCheckout
    \/ RivalStartCheckout
    \/ \E ok \in BOOLEAN : RivalInsertOrder(ok)
    \/ \E ok \in BOOLEAN : RivalInsertItems(ok)

SpecMarket == InitMarket /\ [][NextMarket]_vars

\* The quantity of a product on the items of the orders of a customer.
RECURSIVE OrderedQuantity(_, _, _)
OrderedQuantity(rows, customer, p) ==
    IF rows = <<>> THEN 0
    ELSE OrderedQuantity(Tail(rows), customer, p)
         + (IF /\ Head(rows).product_id = p
               /\ orders[Head(rows).order_id].customer_id = customer
            THEN Head(rows).quantity ELSE 0)

\* C22: no step of either checkout changes the stock_quantity of a product,
\* and every insert of an order or of its items that the store answers is
\* accepted, whatever the other checkout has done and whatever the stock is:
\* two concurrent checkouts of the same product both complete.
C22_ConcurrentCheckoutsIgnoreStock ==
    [][/\ DOMAIN products' = DOMAIN products
       /\ \A p \in DOMAIN products :
             products'[p].stock_quantity = products[p].stock_quantity
       /\ CheckoutInsertOrder(TRUE) => checkout'.pc = "items"
       /\ CheckoutInsertItems(TRUE) => checkout'.result # "failed"
       /\ RivalInsertOrder(TRUE) => rival'.pc = "items"
       /\ RivalInsertItems(TRUE) => rival'.result # "failed"]_vars

\* Both customers placed an order of p1, the second browser between the two
\* inserts of the first, for more units together than the stock holds.
C22_Witness ==
    /\ checkout.result = "placed"
    /\ rival.result = "placed"
    /\ Len(orders) = 2
    /\ orders[1].customer_id # orders[2].customer_id
    /\ order_items # <<>>
    /\ order_items[1].order_id = 2
    /\ OrderedQuantity(order_items, orders[1].customer_id, "p1") > 0
    /\ OrderedQuantity(order_items, orders[2].customer_id, "p1") > 0
    /\ OrderedQuantity(order_items, orders[1].customer_id, "p1")
         + OrderedQuantity(order_items, orders[2].customer_id, "p1")
            > products["p1"].stock_quantity


\* ------------------------------------------------------------------------
\* Prices that change while a product is in a cart: C23
\* ------------------------------------------------------------------------

\* The shop of the checkout with the owner of the pharmacies (or the
\* customer, whom the policies refuse) editing the price of p1.
NextPricing ==
    \/ NextCheckout
    \/ \E actor \in {"u2", "u3"}, price \in FormPrices("p1"), ok \in BOOLEAN :
          SubmitProductPrice(actor, "p1", price, ok)

SpecPricing == InitCheckout /\ [][NextPricing]_vars

\* C23 (as claimed): the unit_price of every order item that a step stores
\* is the price of the referenced product at that moment.
C23_UnitPriceIsCurrentPrice ==
    [][\A k \in DOMAIN order_items' \ DOMAIN order_items :
          /\ order_items'[k].product_id \in DOMAIN products
          /\ order_items'[k].unit_price
                = products[order_items'[k].product_id].price]_vars


\* ------------------------------------------------------------------------
\* The verification status without an administrator: C24
\* ------------------------------------------------------------------------

\* The principals that hold no admin row, and are given none.
Owners == Users \ {SeedAdmin}

\* Registration and the requests of the principals other than the
\* administrator, who takes no step.
NextRegistry ==
    \/ \E u \in Owners, m \in SignUpRoles : SignUp(u, m)
    \/ \E u \in Owners : SignIn(u)
    \/ \E ok \in BOOLEAN : RegInsertPharmacy(ok)
    \/ \E ok \in BOOLEAN : RegInsertRole(ok)
    \/ \E actor \in Owners, owner \in Users, status \in VerificationStatuses,
          ok \in BOOLEAN : RequestInsertPharmacy(actor, owner, status, ok)
    \/ \E actor \in Owners, ph \in 1..MaxPharmacies,
          status \in VerificationStatuses, ok \in BOOLEAN :
             RequestUpdatePharmacy(actor, ph, status, ok)

SpecRegistry == Init /\ [][NextRegistry]_vars

\* C24 (as claimed): while no principal other than the administrator holds
\* the admin role and the administrator takes no step, no pharmacy is
\* approved: the inserts and updates the policies accept from the owner
\* leave verification_status other than approved.
C24_ApprovedOnlyByAdmin ==
    (\A u \in Owners : ~has_role(u, "admin")) =>
        \A ph \in DOMAIN pharmacies :
            pharmacies[ph].verification_status # "approved"


\* ------------------------------------------------------------------------
\* The cart of one browser that two principals use in turn
\* ------------------------------------------------------------------------

\* The principals that sign in, and the products they put in the cart.
CartUsers == {"u2", "u3"}
CartProducts == {"p1", "p2"}

NextCart ==
    \/ \E u \in CartUsers : SignIn(u)
    \/ SignOut
    \/ \E ok \in BOOLEAN : BrowseFetchProducts(ok)
    \/ \E p \in CartProducts : AddToCart(p)
    \/ \E p \in CartProducts : RemoveFromCart(p)
    \/ \E p \in CartProducts, q \in -1..MaxQuantity : UpdateQuantity(p, q)
    \/ ClearCart

SpecCart == InitCheckout /\ [][NextCart]_vars

\* C25 (as claimed): the cart is keyed by principal.  When a principal
\* becomes the signed-in one, the cart in memory is the cart saved under
\* their key, and empty when none is saved; the text under the key of the
\* signed-in principal is the cart in memory, and no step touches the text
\* under the key of another principal.  Only B's own steps then put an item
\* in B's cart.
C25_CartKeyedByPrincipal ==
    [][/\ (authUser' # authUser /\ authUser' # NULL)
            => cart' = IF authUser' \in DOMAIN storage
                       THEN Parse(storage[authUser']) ELSE <<>>
       /\ \A u \in DOMAIN storage' :
             IF u = authUser' THEN storage'[u] = Stringify(cart')
             ELSE u \in DOMAIN storage /\ storage'[u] = storage[u]]_vars

\* C26: the cart holds at most one line per product_id, and every line has
\* a quantity of at least 1, after any sequence of addToCart,
\* removeFromCart, updateQuantity (also with a quantity of 0 or less) and
\* clearCart.
C26_OneLinePerProductQuantityPositive ==
    /\ \A j, k \in DOMAIN cart :
          cart[j].product_id = cart[k].product_id => j = k
    /\ \A k \in DOMAIN cart : cart[k].quantity >= 1

\* Two lines, the first added last: the line that was first has been
\* removed and added again, and a quantity has been raised.
C26_Witness ==
    /\ Len(cart) = 2
    /\ cart[1].product_id = "p2"
    /\ cart[2].product_id = "p1"
    /\ cart[1].quantity = MaxQuantity
    /\ authUser # NULL
    /\ authUser \in DOMAIN storage
    /\ Parse(storage[authUser]) = cart


\* ------------------------------------------------------------------------
\* The role the hook shows and the roles the principal holds: C27
\* ------------------------------------------------------------------------

\* C27 (as claimed): once a resolution whose select succeeded has ended,
\* the role of the hook is customer or a role the principal holds a row of
\* user_roles for.  Stated for the resolutions whose insert, if one was
\* sent, the store answered, so that a failure of the network is not what
\* refutes it.
C27_ShownRoleIsHeld ==
    \A h \in HookIds :
        (ResolvedOk(h) /\ (FellBackToMetadata(h) => StoreAnswered(h))) =>
            \/ roleHook[h].role = "customer"
            \/ has_role(roleHook[h].fetchUser, roleHook[h].role)


\* ------------------------------------------------------------------------
\* The dashboard while the verification status is fetched: C28
\* ------------------------------------------------------------------------

\* C28 (as claimed): for a signed-in principal whose role resolved to
\* pharmacy and whose newest pharmacy is pending, DashboardLayout shows the
\* spinner or the modal, never the main content without blur.  Stated for
\* the states in which no fetch of the status has failed, so that only the
\* order of the fetches refutes it.
C28_PendingPharmacyNeverUnblurred ==
    (/\ authUser # NULL
     /\ roleHook["layout"].pc = "done"
     /\ roleHook["layout"].fetchUser = authUser
     /\ roleHook["layout"].role = "pharmacy"
     /\ NewestPharmacyStatus(authUser) = <<"pending">>
     /\ verification.outcome \in {"none", "ok"})
        => (LayoutLoading \/ ModalOpen)


\* ------------------------------------------------------------------------
\* The totals of the cart and of the orders of a checkout: C29
\* ------------------------------------------------------------------------

\* The sum of total_amount over a list of orders, and the sum of the
\* quantities of their order items.
RECURSIVE AmountOfOrders(_)
AmountOfOrders(ids) ==
    IF ids = <<>> THEN 0
    ELSE orders[Head(ids)].total_amount + AmountOfOrders(Tail(ids))
RECURSIVE QuantityOfRows(_)
QuantityOfRows(rows) ==
    IF rows = <<>> THEN 0
    ELSE Head(rows).quantity + QuantityOfRows(Tail(rows))
RECURSIVE QuantityOfOrders(_)
QuantityOfOrders(ids) ==
    IF ids = <<>> THEN 0
    ELSE QuantityOfRows(ItemsOfOrder(Head(ids)))
            + QuantityOfOrders(Tail(ids))

\* C29: after a successful checkout the total_amount of the orders the run
\* created add up to the totalPrice of the cart it started with, and the
\* quantities of their order items to its totalItems.
C29_OrderTotalsAddUpToCartTotals ==
    checkout.result = "placed" =>
        /\ AmountOfOrders(checkout.created) = totalPrice(checkout.items)
        /\ QuantityOfOrders(checkout.created) = totalItems(checkout.items)

\* A cart of two pharmacies, with a line of more than one unit, was placed
\* as two orders.
C29_Witness ==
    /\ checkout.result = "placed"
    /\ Len(checkout.created) = 2
    /\ Len(checkout.items) = 3
    /\ totalItems(checkout.items) > Len(checkout.items)
    /\ AmountOfOrders(checkout.created) = totalPrice(checkout.items)


\* ------------------------------------------------------------------------
\* Role resolution comes to an end: C30
\* ------------------------------------------------------------------------

\* Sign-up, the administrator's grants, sign-in and the role resolution of
\* DashboardLayout.
NextResolution ==
    \/ \E u \in Users, m \in SignUpRoles : SignUp(u, m)
    \/ \E u \in Users \ {SeedAdmin}, r \in GrantedRoles : AdminInsertRole(u, r)
    \/ \E u \in Users : SignIn(u)
    \/ UrEffect("layout")
    \/ \E o \in Outcomes : UrSelectAnswer("layout", o)
    \/ UrSelectHandle("layout")
    \/ \E o \in Outcomes : UrInsertAnswer("layout", o)
    \/ UrInsertHandle("layout")

\* React runs the effect of a mounted hook after every commit, every request
\* to the store is settled with one of its outcomes, and the continuation
\* of a settled await runs.
FairResolution ==
    /\ WF_vars(UrEffect("layout"))
    /\ WF_vars(\E o \in Outcomes : UrSelectAnswer("layout", o))
    /\ WF_vars(UrSelectHandle("layout"))
    /\ WF_vars(\E o \in Outcomes : UrInsertAnswer("layout", o))
    /\ WF_vars(UrInsertHandle("layout"))

SpecResolution == Init /\ [][NextResolution]_vars /\ FairResolution

\* The hook resolved the role of the signed-in principal; the hook settled
\* without a principal.
ResolvedFor(h) ==
    /\ roleHook[h].pc = "done"
    /\ roleHook[h].fetchUser = authUser
    /\ roleHook[h].loading = FALSE
    /\ roleHook[h].role # NULL
SettledWithoutUser(h) ==
    /\ roleHook[h].loading = FALSE
    /\ roleHook[h].role = NULL

\* C30: with a principal signed in the hook eventually has loading false
\* and a role, whatever the outcomes of the select and of the insert are;
\* while nobody is signed in it eventually has loading false and role null.
C30_RoleResolutionTerminates ==
    /\ (authUser # NULL) ~> ResolvedFor("layout")
    /\ (authUser = NULL)
          ~> (authUser # NULL \/ SettledWithoutUser("layout"))

\* A resolution whose insert threw ended with role customer.
C30_Witness ==
    /\ ResolvedFor("layout")
    /\ roleHook["layout"].selectOutcome = "ok"
    /\ roleHook["layout"].insertOutcome = "thrown"
    /\ roleHook["layout"].role = "customer"

====
